---------------------------- MODULE Spec2Model ----------------------------
(***************************************************************************)
(* Patent-Innovation-Radar: the ingestion and index-synchronisation        *)
(* pipeline.                                                               *)
(*                                                                         *)
(*   services/api/ingest.py      PatentsViewClient, PatentDataLoader,      *)
(*                               ingest_patents                            *)
(*   ml/models/ml_services.py    EmbeddingService.store_embeddings         *)
(*   scripts/generate_embeddings.py, scripts/populate_qdrant.py            *)
(*                                                                         *)
(* Four specifications share the module:                                  *)
(*   SpecLoad   PatentDataLoader.load_patents fed with arbitrary batches   *)
(*   SpecRun    ingest_patents: fetch / load loop over an upstream window  *)
(*   SpecFetch  PatentsViewClient.fetch_patents under backoff.on_exception *)
(*   SpecSync   the embedding writers against PostgreSQL and Qdrant        *)
(*                                                                         *)
(* Nullable values are sequences of length <= 1: <<>> is None / SQL NULL,  *)
(* <<x>> is the value x.  A scalar-or-list field of the raw payload is a   *)
(* record [kind, v] with kind in {"absent", "scalar", "list"}.             *)
(***************************************************************************)
EXTENDS Integers, Sequences, FiniteSets, Bags, TLC

VARIABLES
    \* ---- relational store and PatentDataLoader.load_patents
    db,         \* committed tables
    tx,         \* the tables as seen inside load_patents' open transaction
    txAborted,  \* PostgreSQL: a statement failed, the transaction is aborted
    stats,      \* load_patents' stats dict
    lpc,        \* position of load_patents: "idle", "loading", "returned",
                \* "raised"
    dbclock,    \* NOW() of the store, one tick per transaction
    nrec,       \* records of the current batch iterated so far
    last,       \* history: <<[patent, fail]>> of the latest loop iteration
    hist,       \* history of the current batch, see EmptyHist
    before      \* history: db when load_patents was entered

loadVars == <<db, tx, txAborted, stats, lpc, dbclock, nrec, last, hist, before>>

VARIABLES
    \* ---- ingest_patents and the external API
    upstream,   \* the patents the API holds, newest first
    refused,    \* patent ids whose statements the store refuses
    rpc,        \* position of ingest_patents
    since,      \* lower bound of the fetch window
    offset,     \* pagination offset
    page,       \* response["patents"] of the latest fetch
    todo,       \* records of the page load_patents has not iterated yet
    all_stats,  \* run totals
    runs,       \* runs started
    pagesAsked, \* history: page numbers requested by the run, in order
    snap,       \* history: <<row counts>> when the previous run completed
    crashedAfterLoad, \* history: a run crashed right after a load returned
    met,        \* history: kinds of failure the run has met
    result      \* what the run returned and __main__ printed: <<all_stats>>

runVars == <<upstream, refused, rpc, since, offset, page, todo, all_stats,
             runs, pagesAsked, snap, crashedAfterLoad, met, result>>

VARIABLES
    \* ---- PatentsViewClient
    clock,              \* time.time(), in seconds
    last_request_time,  \* the client's field (ingest.py 38)
    tries,              \* attempts made by the fetch_patents call in progress
    fpc,                \* position of the call: "idle", "enter", "send",
                        \* "backoff", "returned", "raised"
    req,                \* arguments of the call: [since, limit, offset]
    attempts,           \* history: <<[resp, page, query]>> of the call's
                        \* attempts
    delays,             \* history: the backoff sleeps of the call
    gaps,               \* history: seconds between the call's requests
    firstAt,            \* history: the clock at the client's first request
    nreq,               \* history: requests the client has sent
    calls               \* calls made

fetchVars == <<clock, last_request_time, tries, fpc, req, attempts, delays, gaps,
               firstAt, nreq, calls>>
fetchRest == <<clock, last_request_time, fpc, req, attempts, delays, gaps,
               firstAt, nreq, calls>>

VARIABLES
    \* ---- the embedding writers
    embeddings, \* the embeddings table: patent_id -> row
    index,      \* the Qdrant collection "patents": point id -> payload
    wpc,        \* per writer: "idle", "selected", "stored", and how its last
                \* invocation ended: "nothing" (to do), "done", "failed"
    wprog,      \* per writer: the program in progress, or "none"
    wsel,       \* per writer: the patents of the invocation in progress
    syncs,      \* invocations started
    synclog     \* history: the last two invocations that wrote to the index

syncVars == <<embeddings, index, wpc, wprog, wsel, syncs, synclog>>

VARIABLES
    \* ---- two calls of load_patents at the same time on one store
    cphase,     \* per call: "idle", "loading", "returned"
    cbatch,     \* per call: patents_data
    cat,        \* per call: [rec, stmt], the statement to execute next
    held,       \* per call: the row locks of its open transaction
    caborted,   \* per call: its transaction is aborted
    cstats      \* per call: its stats dict

concVars == <<cphase, cbatch, cat, held, caborted, cstats>>

VARIABLES
    \* ---- the operator of a run
    cancel      \* the number of the run that was asked to stop, 0 for none

sigVars == <<cancel>>

-----------------------------------------------------------------------------
(* Values *)

None == <<>>
Some(x) == <<x>>

\* Python truthiness of an optional string (None and "" are falsy).
Truthy(o) == o # None /\ o[1] # ""

\* SQL COALESCE(a, b).
COALESCE(a, b) == IF a # None THEN a ELSE b

Absent == [kind |-> "absent", v |-> <<>>]
Scalar(x) == [kind |-> "scalar", v |-> <<x>>]
List(s) == [kind |-> "list", v |-> s]

EmptyTable == [k \in {} |-> k]

\* f with key k set to row (INSERT of a new key or UPDATE of an old one).
Put(f, k, row) == [x \in DOMAIN f \cup {k} |-> IF x = k THEN row ELSE f[x]]

EmptyDb ==
    [patents |-> EmptyTable, assignees |-> EmptyTable, inventors |-> EmptyTable,
     patent_assignees |-> EmptyBag, patent_inventors |-> EmptyBag,
     citations |-> EmptyBag]

EmptyStats == [inserted |-> 0, updated |-> 0, errors |-> 0]

\* History of a batch: the patent ids of the records none of whose own writes
\* failed, of those with a failing write, and how many records were of each
\* kind or lacked patent_id.
EmptyHist == [clean |-> {}, failed |-> {}, nclean |-> 0, nfailed |-> 0, nskipped |-> 0]

-----------------------------------------------------------------------------
(* PatentDataLoader.load_patents: the statements of one record.            *)
(* Columns no statement of the pipeline reads back (title, filing_date,    *)
(* publication_number) are left out of the rows.                           *)

\* ingest.py 179-184: the cpc_code field coerced to a list of strings.
CpcCodes(patent) ==
    IF patent.cpc_code.kind = "list" THEN patent.cpc_code.v
    ELSE IF patent.cpc_code.kind = "scalar" /\ patent.cpc_code.v[1] # ""
         THEN patent.cpc_code.v
    ELSE <<>>

\* The last code taken for the first (cpc_codes[-1]).
PrimaryCpcLast(cpc_codes) ==
    IF cpc_codes # <<>> THEN Some(cpc_codes[Len(cpc_codes)]) ELSE None

\* ingest.py 186
PrimaryCpc(cpc_codes) == IF cpc_codes # <<>> THEN Some(cpc_codes[1]) ELSE None

\* ingest.py 198: len(...) only when the field is a list, else 0.
NumCitations(patent) ==
    IF patent.cited_patent_id.kind = "list" THEN Len(patent.cited_patent_id.v) ELSE 0

\* ingest.py 199: json.dumps(patent), the serialised payload.
JsonDumps(obj) == [json |-> obj]

\* The upsert with abstract and num_claims taken from the new payload as they
\* are (SET abstract = EXCLUDED.abstract, no COALESCE).
UpsertPatentOverwrite(T, patent, now) ==
    LET pid == patent.patent_id[1]
        excluded ==
            [publication_date |-> patent.patent_date,
             abstract         |-> patent.patent_abstract,
             num_claims       |-> patent.patent_num_claims,
             primary_cpc_code |-> PrimaryCpc(CpcCodes(patent)),
             cpc_codes        |-> CpcCodes(patent),
             num_citations    |-> NumCitations(patent),
             raw_data         |-> JsonDumps(patent),
             ingested_at      |-> Some(now),
             last_updated_at  |-> None]
    IN  IF pid \notin DOMAIN T.patents
        THEN [T EXCEPT !.patents = Put(@, pid, excluded)]
        ELSE LET old == T.patents[pid]
             IN [T EXCEPT !.patents = Put(@, pid,
                    [old EXCEPT !.last_updated_at = Some(now),
                                !.raw_data = excluded.raw_data,
                                !.abstract = excluded.abstract,
                                !.num_claims = excluded.num_claims])]

\* The upsert without raw_data = EXCLUDED.raw_data in its SET list.
UpsertPatentKeepsRaw(T, patent, now) ==
    LET pid == patent.patent_id[1]
        excluded ==
            [publication_date |-> patent.patent_date,
             abstract         |-> patent.patent_abstract,
             num_claims       |-> patent.patent_num_claims,
             primary_cpc_code |-> PrimaryCpc(CpcCodes(patent)),
             cpc_codes        |-> CpcCodes(patent),
             num_citations    |-> NumCitations(patent),
             raw_data         |-> JsonDumps(patent),
             ingested_at      |-> Some(now),
             last_updated_at  |-> None]
    IN  IF pid \notin DOMAIN T.patents
        THEN [T EXCEPT !.patents = Put(@, pid, excluded)]
        ELSE LET old == T.patents[pid]
             IN [T EXCEPT !.patents = Put(@, pid,
                    [old EXCEPT !.last_updated_at = Some(now),
                                !.abstract = COALESCE(excluded.abstract, old.abstract),
                                !.num_claims = COALESCE(excluded.num_claims, old.num_claims)])]

\* ingest.py 158-177 and 188-200: INSERT ... ON CONFLICT (patent_id) DO UPDATE.
UpsertPatent(T, patent, now) ==
    LET pid == patent.patent_id[1]
        excluded ==
            [publication_date |-> patent.patent_date,
             abstract         |-> patent.patent_abstract,
             num_claims       |-> patent.patent_num_claims,
             primary_cpc_code |-> PrimaryCpc(CpcCodes(patent)),
             cpc_codes        |-> CpcCodes(patent),
             num_citations    |-> NumCitations(patent),
             raw_data         |-> JsonDumps(patent),
             ingested_at      |-> Some(now),
             last_updated_at  |-> None]
    IN  IF pid \notin DOMAIN T.patents
        THEN [T EXCEPT !.patents = Put(@, pid, excluded)]
        ELSE LET old == T.patents[pid]
             IN [T EXCEPT !.patents = Put(@, pid,
                    [old EXCEPT !.last_updated_at = Some(now),
                                !.raw_data = excluded.raw_data,
                                !.abstract = COALESCE(excluded.abstract, old.abstract),
                                !.num_claims = COALESCE(excluded.num_claims, old.num_claims)])]

\* ingest.py 203-205 / 242-244: a field that is no list is wrapped in a list
\* when truthy.
AsList(field) ==
    IF field.kind = "list" THEN field.v
    ELSE IF field.kind = "scalar" THEN field.v
    ELSE <<>>

\* ON CONFLICT (assignee_id) DO UPDATE SET name = EXCLUDED.name as well.
UpsertAssigneeRenames(T, assignee, now) ==
    LET id == assignee.assignee_id[1]
    IN  IF id \notin DOMAIN T.assignees
        THEN [T EXCEPT !.assignees = Put(@, id,
                 [name |-> assignee.assignee_name, type |-> assignee.assignee_type,
                  raw_data |-> JsonDumps(assignee),
                  ingested_at |-> Some(now), last_updated_at |-> None])]
        ELSE [T EXCEPT !.assignees = Put(@, id,
                 [T.assignees[id] EXCEPT !.name = assignee.assignee_name,
                                         !.last_updated_at = Some(now)])]

\* ingest.py 212-227: INSERT ... ON CONFLICT (assignee_id) DO UPDATE SET
\* last_updated_at = NOW().
UpsertAssignee(T, assignee, now) ==
    LET id == assignee.assignee_id[1]
    IN  IF id \notin DOMAIN T.assignees
        THEN [T EXCEPT !.assignees = Put(@, id,
                 [name |-> assignee.assignee_name, type |-> assignee.assignee_type,
                  raw_data |-> JsonDumps(assignee),
                  ingested_at |-> Some(now), last_updated_at |-> None])]
        ELSE [T EXCEPT !.assignees = Put(@, id,
                 [T.assignees[id] EXCEPT !.last_updated_at = Some(now)])]

\* ingest.py 251-265
UpsertInventor(T, inventor, now) ==
    LET id == inventor.inventor_id[1]
    IN  IF id \notin DOMAIN T.inventors
        THEN [T EXCEPT !.inventors = Put(@, id,
                 [name |-> inventor.inventor_name,
                  raw_data |-> JsonDumps(inventor),
                  ingested_at |-> Some(now), last_updated_at |-> None])]
        ELSE [T EXCEPT !.inventors = Put(@, id,
                 [T.inventors[id] EXCEPT !.last_updated_at = Some(now)])]

\* The link tables are keyed by (patent_id, entity_id): the schema is not part
\* of the sources, the key is the one the data model states.
LinkKey(row) == <<row.patent_id, row.entity_id>>

\* A plain INSERT: the row is added whether or not its key is there.
InsertLinkAlways(links, patent_id, entity_id, pos) ==
    links (+) SetToBag({[patent_id |-> patent_id, entity_id |-> entity_id,
                         position |-> pos]})

\* ON CONFLICT DO UPDATE SET position: the row of the key takes the new
\* position.
InsertLinkMoves(links, patent_id, entity_id, pos) ==
    LET row == [patent_id |-> patent_id, entity_id |-> entity_id, position |-> pos]
        old == {l \in BagToSet(links) : LinkKey(l) = LinkKey(row)}
    IN  (links (-) SetToBag(old)) (+) SetToBag({row})

\* ingest.py 229-239 / 267-277: INSERT ... ON CONFLICT DO NOTHING.  A link
\* table is the bag of its rows.
InsertLink(links, patent_id, entity_id, pos) ==
    LET row == [patent_id |-> patent_id, entity_id |-> entity_id, position |-> pos]
    IN  IF \E l \in BagToSet(links) : LinkKey(l) = LinkKey(row)
        THEN links
        ELSE links (+) SetToBag({row})

\* ingest.py 207-239, from list index i on (enumerate is zero-based: idx = i-1).
\* An element that is no dict makes assignee.get raise (err = "py").
RECURSIVE LoadAssignees(_, _, _, _, _)
LoadAssignees(T, patent_id, assignees, i, now) ==
    IF i > Len(assignees) THEN [T |-> T, err |-> "none"]
    ELSE LET assignee == assignees[i]
         IN  IF ~assignee.dict THEN [T |-> T, err |-> "py"]
             ELSE IF ~Truthy(assignee.assignee_id)
                  THEN LoadAssignees(T, patent_id, assignees, i + 1, now)
             ELSE LET T1 == UpsertAssignee(T, assignee, now)
                      T2 == [T1 EXCEPT !.patent_assignees =
                                InsertLink(@, patent_id, assignee.assignee_id[1], i - 1)]
                  IN LoadAssignees(T2, patent_id, assignees, i + 1, now)

\* ingest.py 246-277
RECURSIVE LoadInventors(_, _, _, _, _)
LoadInventors(T, patent_id, inventors, i, now) ==
    IF i > Len(inventors) THEN [T |-> T, err |-> "none"]
    ELSE LET inventor == inventors[i]
         IN  IF ~inventor.dict THEN [T |-> T, err |-> "py"]
             ELSE IF ~Truthy(inventor.inventor_id)
                  THEN LoadInventors(T, patent_id, inventors, i + 1, now)
             ELSE LET T1 == UpsertInventor(T, inventor, now)
                      T2 == [T1 EXCEPT !.patent_inventors =
                                InsertLink(@, patent_id, inventor.inventor_id[1], i - 1)]
                  IN LoadInventors(T2, patent_id, inventors, i + 1, now)

\* What the store does to the statements of one record: it executes them, or
\* it refuses one of them (constraint, type or serialization error).
FailKinds == {"none", "refused"}

\* ingest.py 147-284: one iteration of the loop, inside the transaction opened
\* at line 145.  S = [T, aborted, stats].  PostgreSQL refuses every statement
\* of a transaction in which a statement has failed; a Python exception
\* (err = "py") leaves the transaction usable and the record's earlier
\* statements in it.
LoadRecord(S, patent, fail, now) ==
    IF ~Truthy(patent.patent_id) THEN S
    ELSE IF S.aborted \/ fail = "refused"
         THEN [S EXCEPT !.aborted = TRUE, !.stats.errors = @ + 1]
    ELSE LET pid == patent.patent_id[1]
             T1 == UpsertPatent(S.T, patent, now)
             a  == LoadAssignees(T1, pid, AsList(patent.assignees), 1, now)
             v  == LoadInventors(a.T, pid, AsList(patent.inventors), 1, now)
             r  == IF a.err # "none" THEN a ELSE v
         IN  IF r.err = "none"
             THEN [S EXCEPT !.T = r.T, !.stats.inserted = @ + 1]
             ELSE [S EXCEPT !.T = r.T, !.stats.errors = @ + 1]

\* ingest.py 145 and 286: leaving the with block commits; the COMMIT of an
\* aborted transaction is answered by a rollback.
Commit(committed, T, aborted) == IF aborted THEN committed ELSE T

\* SQL MAX over a column's non-null values.
MaxDate(S) ==
    IF S = {} THEN None
    ELSE LET d == CHOOSE x \in S : \A y \in S : y <= x IN Some(d)

\* The query answered from the rows of the transaction in progress instead
\* of the committed ones (a dirty read).
get_last_ingestion_date_dirty(store) ==
    MaxDate({tx.patents[p].publication_date[1] :
                p \in {q \in DOMAIN tx.patents :
                          tx.patents[q].publication_date # None}})

\* ingest.py 288-295: SELECT MAX(publication_date) FROM patents.
get_last_ingestion_date(store) ==
    MaxDate({store.patents[p].publication_date[1] :
                p \in {q \in DOMAIN store.patents :
                          store.patents[q].publication_date # None}})

-----------------------------------------------------------------------------
(* Raw payloads the loader is fed with *)

Assignee(id, name) ==
    [dict |-> TRUE, assignee_id |-> id, assignee_name |-> Some(name),
     assignee_type |-> Some("2")]
Inventor(id, name) ==
    [dict |-> TRUE, inventor_id |-> id, inventor_name |-> Some(name)]
\* A list element that is no JSON object (a bare string).
NotADict ==
    [dict |-> FALSE, assignee_id |-> None, assignee_name |-> None,
     assignee_type |-> None]

Raw(id, date, abstract, claims, cpc, cited, assignees, inventors) ==
    [patent_id |-> id, patent_date |-> Some(date), patent_abstract |-> abstract,
     patent_num_claims |-> claims, cpc_code |-> cpc, cited_patent_id |-> cited,
     assignees |-> assignees, inventors |-> inventors]

\* p1 as first published; p1 as a sparser payload (abstract and claims
\* missing, scalar fields, assignees reordered and one renamed); p1 with a
\* new abstract and claim count.
RawP1 ==
    Raw(Some("p1"), 5, Some("a1"), Some(5), List(<<"G06", "H04">>),
        List(<<"x1", "x2">>),
        List(<<Assignee(Some("A1"), "Acme"), Assignee(Some("A2"), "Bolt")>>),
        List(<<Inventor(Some("I1"), "Ida")>>))
RawP1Sparse ==
    Raw(Some("p1"), 5, None, None, Scalar("H04"), Scalar("x1"),
        List(<<Assignee(Some("A2"), "Bolt"), Assignee(Some("A1"), "Acme Corp")>>),
        Scalar(Inventor(Some("I1"), "Ida")))
RawP1New ==
    Raw(Some("p1"), 5, Some("a3"), Some(7), List(<<"G06", "H04">>),
        List(<<"x1", "x2">>),
        List(<<Assignee(Some("A1"), "Acme"), Assignee(Some("A2"), "Bolt")>>),
        List(<<Inventor(Some("I1"), "Ida")>>))
RawP2 ==
    Raw(Some("p2"), 3, Some("a2"), None, Absent, Absent, Absent,
        List(<<Inventor(None, "Nemo"), Inventor(Some("I2"), "Jo")>>))
\* A record whose assignees list holds an element that is no JSON object.
RawP3 ==
    Raw(Some("p3"), 8, None, Some(3), Scalar("G06"), List(<<>>),
        List(<<Assignee(Some("A1"), "Acme"), NotADict>>), Absent)
RawNoId ==
    Raw(None, 8, Some("a0"), None, Absent, Absent, Absent, Absent)

RawP4 ==
    Raw(Some("p4"), 2, Some("a4"), Some(1), List(<<"H04">>), Absent,
        Scalar(Assignee(Some("A2"), "Bolt")), Absent)
RawP5 ==
    Raw(Some("p5"), 1, None, None, Absent, Absent, Absent, Absent)

\* What SpecLoad feeds the loader with.
Catalogue == {RawP1, RawP1Sparse, RawP1New, RawP2, RawNoId}

\* Bounds of SpecLoad: calls of load_patents, records per batch.
MaxLoads == 2
MaxBatchLen == 3

-----------------------------------------------------------------------------
(* PatentDataLoader.load_patents as a process *)

\* Whether the record's own statements succeed when nothing else interferes.
OwnWritesSucceed(patent, fail) ==
    LoadRecord([T |-> EmptyDb, aborted |-> FALSE, stats |-> EmptyStats],
               patent, fail, 0).stats.inserted = 1

LoadInit ==
    /\ db = EmptyDb
    /\ tx = EmptyDb
    /\ txAborted = FALSE
    /\ stats = EmptyStats
    /\ lpc = "idle"
    /\ dbclock = 0
    /\ nrec = 0
    /\ last = <<>>
    /\ hist = EmptyHist
    /\ before = EmptyDb

\* ingest.py 138-145: stats initialised, engine.begin() opens the transaction.
LoadBegin ==
    /\ lpc # "loading"
    /\ lpc' = "loading"
    /\ tx' = db
    /\ txAborted' = FALSE
    /\ stats' = EmptyStats
    /\ dbclock' = dbclock + 1
    /\ nrec' = 0
    /\ last' = <<>>
    /\ hist' = EmptyHist
    /\ before' = db
    /\ UNCHANGED db

\* ingest.py 146-284: the loop body for the next record of the batch.
LoadNext(patent, fail) ==
    /\ lpc = "loading"
    /\ LET S == LoadRecord([T |-> tx, aborted |-> txAborted, stats |-> stats],
                           patent, fail, dbclock)
       IN  /\ tx' = S.T
           /\ txAborted' = S.aborted
           /\ stats' = S.stats
    /\ nrec' = nrec + 1
    /\ last' = <<[patent |-> patent, fail |-> fail]>>
    /\ hist' = IF ~Truthy(patent.patent_id)
                THEN [hist EXCEPT !.nskipped = @ + 1]
                ELSE IF OwnWritesSucceed(patent, fail)
                THEN [hist EXCEPT !.clean = @ \cup {patent.patent_id[1]}, !.nclean = @ + 1]
                ELSE [hist EXCEPT !.failed = @ \cup {patent.patent_id[1]}, !.nfailed = @ + 1]
    /\ UNCHANGED <<db, lpc, dbclock, before>>

\* ingest.py 285-286: the with block is left (commit) and stats returned.
LoadReturn ==
    /\ lpc = "loading"
    /\ db' = Commit(db, tx, txAborted)
    /\ tx' = db'
    /\ txAborted' = FALSE
    /\ lpc' = "returned"
    /\ UNCHANGED <<stats, dbclock, nrec, last, hist, before>>

\* The exception leaves load_patents, but the statements of the batch so far
\* are committed.
LoadRaiseCommits ==
    /\ lpc = "loading"
    /\ db' = Commit(db, tx, txAborted)
    /\ tx' = db'
    /\ txAborted' = FALSE
    /\ lpc' = "raised"
    /\ UNCHANGED <<stats, dbclock, nrec, last, hist, before>>

\* ingest.py 145: engine.begin() cannot open the connection, or the COMMIT on
\* leaving the with block fails because the connection is lost: the
\* exception leaves load_patents and nothing of the batch is committed.
LoadRaise ==
    /\ lpc = "loading"
    /\ tx' = db
    /\ txAborted' = FALSE
    /\ lpc' = "raised"
    /\ UNCHANGED <<db, stats, dbclock, nrec, last, hist, before>>

vars == <<loadVars, runVars, fetchVars, syncVars, concVars, sigVars>>
-----------------------------------------------------------------------------
(* Claims about the loader, under SpecLoad *)

\* The row of pid was written by the load that has just returned.
TouchedNow(pid) ==
    /\ pid \in DOMAIN db.patents
    /\ \/ db.patents[pid].ingested_at = Some(dbclock)
       \/ db.patents[pid].last_updated_at = Some(dbclock)

\* The row of pid is as it was when the load was entered.
Untouched(pid) ==
    /\ pid \in DOMAIN db.patents <=> pid \in DOMAIN before.patents
    /\ pid \in DOMAIN before.patents => db.patents[pid] = before.patents[pid]

\* C1. Per-record atomicity: when load_patents returns, every record whose
\* own writes succeeded is committed, whether a sibling record of the batch
\* failed before or after it; a record with a failing write leaves no write
\* behind and counts as exactly one error.
C1_PerRecordAtomicity ==
    lpc = "returned" =>
        /\ \A pid \in hist.clean \ hist.failed : TouchedNow(pid)
        /\ \A pid \in hist.failed \ hist.clean : Untouched(pid)
        /\ stats.errors = hist.nfailed

\* A batch with a clean record and a failing one has been loaded.
C1_Witness ==
    lpc = "returned" /\ hist.nfailed = 1 /\ hist.clean \ hist.failed # {}

\* C3. Non-regression merge: a stored non-null abstract (num_claims) never
\* becomes null; an upsert of a stored patent_id with a null abstract
\* (num_claims) leaves the stored value as it was and one with a non-null
\* value replaces it.
MergeStep ==
    (lpc = "loading" /\ nrec' = nrec + 1 /\ ~txAborted'
        /\ last'[1].fail = "none" /\ Truthy(last'[1].patent.patent_id)
        /\ last'[1].patent.patent_id[1] \in DOMAIN tx.patents)
    => LET in  == last'[1].patent
           old == tx.patents[in.patent_id[1]]
           new == tx'.patents[in.patent_id[1]]
       IN  /\ in.patent_abstract = None => new.abstract = old.abstract
           /\ in.patent_abstract # None => new.abstract = in.patent_abstract
           /\ in.patent_num_claims = None => new.num_claims = old.num_claims
           /\ in.patent_num_claims # None => new.num_claims = in.patent_num_claims

NonNullKept ==
    \A pid \in DOMAIN db.patents :
        /\ pid \in DOMAIN db'.patents
        /\ db.patents[pid].abstract # None => db'.patents[pid].abstract # None
        /\ db.patents[pid].num_claims # None => db'.patents[pid].num_claims # None

C3_NonRegressionMerge == [][MergeStep /\ NonNullKept]_vars

\* p1 was stored with an abstract and claims, then upserted from the sparse
\* payload, and both values are still there.
C3_Witness ==
    /\ lpc = "returned"
    /\ "p1" \in DOMAIN db.patents
    /\ db.patents["p1"].raw_data = JsonDumps(RawP1Sparse)
    /\ db.patents["p1"].last_updated_at # None
    /\ db.patents["p1"].abstract # None
    /\ db.patents["p1"].num_claims # None
-----------------------------------------------------------------------------
(* PatentsViewClient.fetch_patents: one attempt and the retry decorator *)

\* What one HTTP attempt can meet.
Responses == {"ok", "network", "timeout", "http_5xx", "http_429", "http_4xx"}

\* ingest.py 109-115: what the body of fetch_patents raises on a response.
\* requests.get raises ConnectionError or Timeout; raise_for_status raises
\* HTTPError on every 4xx and 5xx status.
Raises(resp) ==
    CASE resp = "ok"      -> "none"
      [] resp = "network" -> "ConnectionError"
      [] resp = "timeout" -> "Timeout"
      [] OTHER            -> "HTTPError"

\* The classes of requests.exceptions: all three derive from RequestException.
IsRequestException(exc) == exc \in {"ConnectionError", "Timeout", "HTTPError"}

\* The decorator catching Timeout alone.
CaughtOnlyTimeout(exc) == exc = "Timeout"

\* ingest.py 50: the exception tuple of backoff.on_exception.
Caught(exc) == IsRequestException(exc) \/ exc = "Timeout"

\* ingest.py 51-52
max_tries == 3
factor == 2

\* backoff.on_exception around the n-th attempt of a call: the value is
\* returned, or the exception is re-raised (not caught, or max_tries reached),
\* or the call sleeps and tries again.
AfterAttempt(resp, n) ==
    IF Raises(resp) = "none" THEN "return"
    ELSE IF ~Caught(Raises(resp)) \/ n = max_tries THEN "raise"
    ELSE "retry"

\* ingest.py 77: the page number sent for an offset.
PageNumber(off, limit) == off \div limit + 1

\* Seconds in a day, scaled down, and the day a clock reading falls in.
SecondsPerDay == 4
Date(t) == t \div SecondsPerDay

\* ingest.py 75: the days taken off the clock when no since is passed.
default_days == 7

\* ingest.py 34 and 365: the client's key, None when PATENTSVIEW_API_KEY is
\* not set.  No statement assigns the field after construction.
api_key == None

\* ingest.py 74-106: the parameters of the request.  r.since is the day of
\* the datetime passed, which strftime("%Y-%m-%d") keeps, or None; the field
\* projection "f" is a literal and is left out.
BuildQuery(r, now) ==
    [q        |-> IF r.since # None THEN r.since[1] ELSE Date(now) - default_days,
     page     |-> PageNumber(r.offset, r.limit),
     per_page |-> r.limit,
     key      |-> IF Truthy(api_key) THEN api_key ELSE None]

\* ingest.py 30 and 43: the rate and the interval 1.0 / rate_limit_per_sec,
\* in seconds.
rate_limit_per_sec == 1
Interval == 1 \div rate_limit_per_sec

RECURSIVE Pow2(_)
Pow2(n) == IF n = 0 THEN 1 ELSE 2 * Pow2(n - 1)

\* backoff.expo with base 2: the value before the sleep that follows the
\* n-th attempt.  on_exception applies full jitter: the sleep is drawn from
\* 0 .. value.
Expo(n) == factor * Pow2(n - 1)

\* The clock when the first call is made, the last clock reading of a
\* behaviour, and the calls of one behaviour.
StartTime == 2
MaxClock == 8
MaxCalls == 2

\* ingest.py 27-38: the client after construction.
FetchIdle ==
    /\ last_request_time = 0
    /\ tries = 0
    /\ fpc = "idle"
    /\ req = <<>>
    /\ attempts = <<>>
    /\ delays = <<>>
    /\ gaps = <<>>
    /\ firstAt = <<>>
    /\ nreq = 0
    /\ calls = 0

FetchInit == clock = StartTime /\ FetchIdle

\* ingest.py 54-59: fetch_patents is called.
FetchCall(s, limit, off) ==
    /\ fpc \in {"idle", "returned", "raised"}
    /\ calls < MaxCalls
    /\ calls' = calls + 1
    /\ req' = <<[since |-> s, limit |-> limit, offset |-> off]>>
    /\ tries' = 0
    /\ attempts' = <<>>
    /\ delays' = <<>>
    /\ gaps' = <<>>
    /\ fpc' = "enter"
    /\ UNCHANGED <<clock, last_request_time, firstAt, nreq>>

\* _rate_limit without its sleep: the request goes out at once.
FetchRateLimitNoSleep ==
    /\ fpc = "enter"
    /\ last_request_time' = clock
    /\ gaps' = IF tries >= 1 THEN Append(gaps, clock - last_request_time) ELSE gaps
    /\ firstAt' = IF firstAt = <<>> THEN <<clock>> ELSE firstAt
    /\ nreq' = nreq + 1
    /\ tries' = tries + 1
    /\ fpc' = "send"
    /\ UNCHANGED <<clock, req, attempts, delays, calls>>

\* ingest.py 71 with 40-46: the body starts with _rate_limit().
FetchRateLimit ==
    /\ fpc = "enter"
    /\ LET elapsed == clock - last_request_time
           wait_time == Interval - elapsed
           woke == IF wait_time > 0 THEN clock + wait_time ELSE clock
       IN  /\ woke <= MaxClock
           /\ clock' = woke
           /\ last_request_time' = woke
           /\ gaps' = IF tries >= 1
                      THEN Append(gaps, woke - last_request_time) ELSE gaps
           /\ firstAt' = IF firstAt = <<>> THEN <<woke>> ELSE firstAt
    /\ nreq' = nreq + 1
    /\ tries' = tries + 1
    /\ fpc' = "send"
    /\ UNCHANGED <<req, attempts, delays, calls>>

\* ingest.py 73-115 under the decorator of 48-53: the request is built and
\* sent, and the decorator decides on what came back.
FetchSend(resp) ==
    /\ fpc = "send"
    /\ attempts' = Append(attempts,
                          [resp |-> resp,
                           page |-> PageNumber(req[1].offset, req[1].limit),
                           query |-> BuildQuery(req[1], clock)])
    /\ fpc' = CASE AfterAttempt(resp, tries) = "return" -> "returned"
                [] AfterAttempt(resp, tries) = "raise"  -> "raised"
                [] OTHER                                -> "backoff"
    /\ UNCHANGED <<clock, last_request_time, tries, req, delays, gaps, firstAt,
                   nreq, calls>>

\* The limiter called once per call, outside the retried body: after its
\* sleep the decorator sends the request again at once.
FetchBackoffSkipsLimiter(seconds) ==
    /\ fpc = "backoff"
    /\ seconds \in 0 .. Expo(tries)
    /\ clock + seconds <= MaxClock
    /\ clock' = clock + seconds
    /\ delays' = Append(delays, seconds)
    /\ tries' = tries + 1
    /\ nreq' = nreq + 1
    /\ fpc' = "send"
    /\ UNCHANGED <<last_request_time, req, attempts, gaps, firstAt, calls>>

\* The decorator's sleep before the next attempt.
FetchBackoff(seconds) ==
    /\ fpc = "backoff"
    /\ seconds \in 0 .. Expo(tries)
    /\ clock + seconds <= MaxClock
    /\ clock' = clock + seconds
    /\ delays' = Append(delays, seconds)
    /\ fpc' = "enter"
    /\ UNCHANGED <<last_request_time, tries, req, attempts, gaps, firstAt, nreq,
                   calls>>

\* Time passes between two calls.
Tick ==
    /\ fpc \in {"idle", "returned", "raised"}
    /\ clock < MaxClock
    /\ clock' = clock + 1
    /\ UNCHANGED <<last_request_time, tries, fpc, req, attempts, delays, gaps,
                   firstAt, nreq, calls>>

-----------------------------------------------------------------------------
(* ingest_patents *)

\* ingest.py 301 (since_days) and the clock reading of the model's runs.
since_days == 7
Today == 9

\* ingest.py 325-326, scaled down.
batch_size == 2
max_batches == 2

\* Runs of ingest_patents in one behaviour.
MaxRuns == 2

\* What the API can hold, newest first (ingest.py 79: sort patent_date desc).
Newest == <<RawP3, RawNoId, RawP1, RawP2, RawP4, RawP5>>

RECURSIVE Pick(_, _, _)
\* The subsequence of s at the indices in I, in order.
Pick(s, I, i) ==
    IF i > Len(s) THEN <<>>
    ELSE IF i \in I THEN <<s[i]>> \o Pick(s, I, i + 1)
    ELSE Pick(s, I, i + 1)

Upstreams == {Pick(Newest, I, 1) : I \in SUBSET (1 .. Len(Newest))}

\* Patents whose payload the store may refuse in every run.
Refusable == {"p1", "p2", "p4"}

RECURSIVE SelectFrom(_, _)
\* ingest.py 75: the filter patent_date >= since, applied by the API.
SelectFrom(s, d) ==
    IF s = <<>> THEN <<>>
    ELSE IF Head(s).patent_date[1] >= d THEN <<Head(s)>> \o SelectFrom(Tail(s), d)
    ELSE SelectFrom(Tail(s), d)

\* The API's answer: page number pg of per_page records of the window.
ApiPage(s, d, pg, per_page) ==
    LET w == SelectFrom(s, d)
        lo == (pg - 1) * per_page + 1
        hi == IF pg * per_page < Len(w) THEN pg * per_page ELSE Len(w)
    IN  IF lo > Len(w) THEN <<>> ELSE SubSeq(w, lo, hi)

ZeroTotals ==
    [total_inserted |-> 0, total_updated |-> 0, total_errors |-> 0,
     batches_processed |-> 0]

\* Row counts of the six tables.
Counts(store) ==
    [patents |-> Cardinality(DOMAIN store.patents),
     assignees |-> Cardinality(DOMAIN store.assignees),
     inventors |-> Cardinality(DOMAIN store.inventors),
     patent_assignees |-> BagCardinality(store.patent_assignees),
     patent_inventors |-> BagCardinality(store.patent_inventors),
     citations |-> BagCardinality(store.citations)]

RunInit ==
    /\ upstream \in Upstreams
    /\ refused \in {{}} \cup {{p} : p \in Refusable}
    /\ rpc = "idle"
    /\ since = 0
    /\ offset = 0
    /\ page = <<>>
    /\ todo = <<>>
    /\ all_stats = ZeroTotals
    /\ runs = 0
    /\ pagesAsked = <<>>
    /\ snap = <<>>
    /\ crashedAfterLoad = FALSE
    /\ met = {}
    /\ result = <<>>

\* ingest.py 307-326: a run starts.
RunStart ==
    /\ rpc \in {"idle", "done", "raised", "crashed"}
    /\ runs < MaxRuns
    /\ runs' = runs + 1
    /\ since' = Today - since_days
    /\ all_stats' = ZeroTotals
    /\ offset' = 0
    /\ rpc' = "loop"
    /\ tries' = 0
    /\ page' = <<>>
    /\ todo' = <<>>
    /\ pagesAsked' = <<>>
    /\ snap' = IF rpc = "done" THEN <<Counts(db)>> ELSE snap
    /\ met' = {}
    /\ result' = <<>>
    /\ UNCHANGED <<upstream, refused, crashedAfterLoad>>
    /\ UNCHANGED loadVars
    /\ UNCHANGED <<fetchRest, syncVars, concVars, sigVars>>

\* The next page requested while load_patents is still at work on the
\* previous one (a prefetch).
RunAttemptEarly(resp) ==
    /\ rpc \in {"loop", "loading"}
    /\ offset < max_batches * batch_size
    /\ LET next == AfterAttempt(resp, tries + 1)
           pg == PageNumber(offset, batch_size)
       IN  /\ pagesAsked' = IF tries = 0 THEN Append(pagesAsked, pg) ELSE pagesAsked
           /\ tries' = IF next = "retry" THEN tries + 1 ELSE 0
           /\ rpc' = CASE next = "return" -> "fetched"
                       [] next = "retry"  -> rpc
                       [] OTHER           -> "raised"
           /\ page' = IF next = "return"
                      THEN ApiPage(upstream, since, pg, batch_size) ELSE page
    /\ met' = IF resp = "http_4xx" THEN met \cup {"permanent"} ELSE met
    /\ UNCHANGED <<upstream, refused, since, offset, todo, all_stats, runs, snap,
                   crashedAfterLoad, result>>
    /\ UNCHANGED loadVars
    /\ UNCHANGED <<fetchRest, syncVars, concVars, sigVars>>

\* ingest.py 328 with 331 and 48-115: one attempt of client.fetch_patents.
\* An exception that leaves the decorator leaves ingest_patents too.
RunAttempt(resp) ==
    /\ rpc = "loop"
    /\ offset < max_batches * batch_size
    /\ LET next == AfterAttempt(resp, tries + 1)
           pg == PageNumber(offset, batch_size)
       IN  /\ pagesAsked' = IF tries = 0 THEN Append(pagesAsked, pg) ELSE pagesAsked
           /\ tries' = IF next = "retry" THEN tries + 1 ELSE 0
           /\ rpc' = CASE next = "return" -> "fetched"
                       [] next = "retry"  -> "loop"
                       [] OTHER           -> "raised"
           /\ page' = IF next = "return"
                      THEN ApiPage(upstream, since, pg, batch_size) ELSE page
    /\ met' = IF resp = "http_4xx" THEN met \cup {"permanent"} ELSE met
    /\ UNCHANGED <<upstream, refused, since, offset, todo, all_stats, runs, snap,
                   crashedAfterLoad, result>>
    /\ UNCHANGED loadVars
    /\ UNCHANGED <<fetchRest, syncVars, concVars, sigVars>>

\* ingest.py 328: the while condition fails, the loop is left.
RunCapReached ==
    /\ rpc = "loop"
    /\ tries = 0
    /\ ~(offset < max_batches * batch_size)
    /\ rpc' = "done"
    /\ result' = <<all_stats>>
    /\ UNCHANGED <<upstream, refused, since, offset, page, todo, all_stats, runs,
                   pagesAsked, snap, crashedAfterLoad, met>>
    /\ UNCHANGED loadVars
    /\ UNCHANGED <<fetchVars, syncVars, concVars, sigVars>>

\* ingest.py 333-335: no patents in the response.
RunEmptyPage ==
    /\ rpc = "fetched"
    /\ page = <<>>
    /\ rpc' = "done"
    /\ result' = <<all_stats>>
    /\ UNCHANGED <<upstream, refused, since, offset, page, todo, all_stats, runs,
                   pagesAsked, snap, crashedAfterLoad, met>>
    /\ UNCHANGED loadVars
    /\ UNCHANGED <<fetchVars, syncVars, concVars, sigVars>>

\* ingest.py 341: loader.load_patents(patents) is entered.
RunLoadBegin ==
    /\ rpc = "fetched"
    /\ page # <<>>
    /\ rpc' = "loading"
    /\ todo' = page
    /\ LoadBegin
    /\ UNCHANGED <<upstream, refused, since, offset, page, all_stats, runs,
                   pagesAsked, snap, crashedAfterLoad, met, result>>
    /\ UNCHANGED <<fetchVars, syncVars, concVars, sigVars>>

\* ingest.py 146-284 on the next record of the page.
RunLoadNext ==
    /\ rpc = "loading"
    /\ todo # <<>>
    /\ LoadNext(Head(todo),
                IF Head(todo).patent_id # None /\ Head(todo).patent_id[1] \in refused
                THEN "refused" ELSE "none")
    /\ todo' = Tail(todo)
    /\ UNCHANGED <<upstream, refused, rpc, since, offset, page, all_stats, runs,
                   pagesAsked, snap, crashedAfterLoad, met, result>>
    /\ UNCHANGED <<fetchVars, syncVars, concVars, sigVars>>

\* ingest.py 285-286: load_patents commits and returns.
RunLoadReturn ==
    /\ rpc = "loading"
    /\ todo = <<>>
    /\ LoadReturn
    /\ rpc' = "loaded"
    /\ UNCHANGED <<upstream, refused, since, offset, page, todo, all_stats, runs,
                   pagesAsked, snap, crashedAfterLoad, met, result>>
    /\ UNCHANGED <<fetchVars, syncVars, concVars, sigVars>>

\* ingest.py 341: load_patents raises, at engine.begin() or at the COMMIT
\* after the last record, and the exception leaves ingest_patents.
RunLoadRaise ==
    /\ rpc = "loading"
    /\ nrec = 0 \/ todo = <<>>
    /\ LoadRaise
    /\ rpc' = "raised"
    /\ todo' = <<>>
    /\ met' = met \cup {"infrastructure"}
    /\ UNCHANGED <<upstream, refused, since, offset, page, all_stats, runs,
                   pagesAsked, snap, crashedAfterLoad, result>>
    /\ UNCHANGED <<fetchVars, syncVars, concVars, sigVars>>

\* The loop with a total that leaves the batch's errors out.
RunAdvanceDropsErrors ==
    /\ rpc = "loaded"
    /\ all_stats' =
          [total_inserted |-> all_stats.total_inserted + stats.inserted,
           total_updated |-> all_stats.total_updated + stats.updated,
           total_errors |-> all_stats.total_errors,
           batches_processed |-> all_stats.batches_processed + 1]
    /\ IF Len(page) < batch_size
       THEN rpc' = "done" /\ offset' = offset /\ result' = <<all_stats'>>
       ELSE rpc' = "loop" /\ offset' = offset + batch_size /\ result' = result
    /\ UNCHANGED <<upstream, refused, since, page, todo, tries, runs, pagesAsked,
                   snap, crashedAfterLoad, met>>
    /\ UNCHANGED loadVars
    /\ UNCHANGED <<fetchRest, syncVars, concVars, sigVars>>

\* The loop stepping over a page: the offset grows by two batches.
RunAdvanceSkipsPage ==
    /\ rpc = "loaded"
    /\ all_stats' =
          [total_inserted |-> all_stats.total_inserted + stats.inserted,
           total_updated |-> all_stats.total_updated + stats.updated,
           total_errors |-> all_stats.total_errors + stats.errors,
           batches_processed |-> all_stats.batches_processed + 1]
    /\ IF Len(page) < batch_size
       THEN rpc' = "done" /\ offset' = offset /\ result' = <<all_stats'>>
       ELSE rpc' = "loop" /\ offset' = offset + 2 * batch_size /\ result' = result
    /\ UNCHANGED <<upstream, refused, since, page, todo, tries, runs, pagesAsked,
                   snap, crashedAfterLoad, met>>
    /\ UNCHANGED loadVars
    /\ UNCHANGED <<fetchRest, syncVars, concVars, sigVars>>

\* The loop without its short-page check.
RunAdvanceNoShortStop ==
    /\ rpc = "loaded"
    /\ all_stats' =
          [total_inserted |-> all_stats.total_inserted + stats.inserted,
           total_updated |-> all_stats.total_updated + stats.updated,
           total_errors |-> all_stats.total_errors + stats.errors,
           batches_processed |-> all_stats.batches_processed + 1]
    /\ rpc' = "loop"
    /\ offset' = offset + batch_size
    /\ UNCHANGED <<upstream, refused, since, page, todo, tries, runs, pagesAsked,
                   snap, crashedAfterLoad, met, result>>
    /\ UNCHANGED loadVars
    /\ UNCHANGED <<fetchRest, syncVars, concVars, sigVars>>

\* ingest.py 342-354: totals, the short-page check, the next offset.
RunAdvance ==
    /\ rpc = "loaded"
    /\ all_stats' =
          [total_inserted |-> all_stats.total_inserted + stats.inserted,
           total_updated |-> all_stats.total_updated + stats.updated,
           total_errors |-> all_stats.total_errors + stats.errors,
           batches_processed |-> all_stats.batches_processed + 1]
    /\ IF Len(page) < batch_size
       THEN rpc' = "done" /\ offset' = offset /\ result' = <<all_stats'>>
       ELSE rpc' = "loop" /\ offset' = offset + batch_size /\ result' = result
    /\ UNCHANGED <<upstream, refused, since, page, todo, tries, runs, pagesAsked,
                   snap, crashedAfterLoad, met>>
    /\ UNCHANGED loadVars
    /\ UNCHANGED <<fetchRest, syncVars, concVars, sigVars>>

\* The process dies between two steps; an open transaction is rolled back.
Crash ==
    /\ rpc \in {"loop", "fetched", "loading", "loaded"}
    /\ rpc' = "crashed"
    /\ crashedAfterLoad' = (crashedAfterLoad \/ rpc = "loaded")
    /\ tries' = 0
    /\ todo' = <<>>
    /\ tx' = db
    /\ txAborted' = FALSE
    /\ lpc' = IF lpc = "loading" THEN "idle" ELSE lpc
    /\ UNCHANGED <<upstream, refused, since, offset, page, all_stats, runs,
                   pagesAsked, snap, met, result>>
    /\ UNCHANGED <<db, stats, dbclock, nrec, last, hist, before>>
    /\ UNCHANGED <<fetchRest, syncVars, concVars, sigVars>>

\* No run has been asked to stop.
NoSignal == cancel = 0

\* The operator asks the run in progress to stop.  ingest_patents takes no
\* argument and reads no flag through which the request could reach its loop
\* (ingest.py 298-302, 328-354).
Cancel ==
    /\ rpc \in {"loop", "fetched", "loading", "loaded"}
    /\ cancel # runs
    /\ cancel' = runs
    /\ UNCHANGED <<loadVars, runVars, fetchVars, syncVars, concVars>>

-----------------------------------------------------------------------------
(* The embedding writers: scripts/generate_embeddings.py,
   EmbeddingService.store_embeddings, scripts/populate_qdrant.py and
   scripts/generate_embeddings_simple.py *)

\* The processes that may run a writer at the same time.
Writers == {"w1", "w2"}

\* Invocations of one behaviour, and the largest --limit tried.
MaxSyncs == 3
MaxLimit == 2

\* The patents table the writers read: two records loaded by load_patents.
SyncStore ==
    LoadRecord(
        LoadRecord([T |-> EmptyDb, aborted |-> FALSE, stats |-> EmptyStats],
                   RawP5, "none", 1),
        RawP4, "none", 1).T

\* str(idx) of the positions met, and its inverse.
Digits == <<"0", "1", "2", "3", "4", "5", "6", "7", "8", "9">>
Str(n) == Digits[n + 1]
ParseInt(str) == CHOOSE n \in 0 .. Len(Digits) - 1 : Str(n) = str

\* The patent ids in ascending order (ORDER BY p.patent_id).
Ascending == <<"p1", "p2", "p3", "p4", "p5">>

\* The sequences without repetition over S.
Orders(S) ==
    {q \in UNION {[1 .. n -> S] : n \in 0 .. Cardinality(S)} :
        \A i, j \in 1 .. Len(q) : i # j => q[i] # q[j]}

Range(q) == {q[i] : i \in 1 .. Len(q)}

\* generate_embeddings.py 68-76 and generate_embeddings_simple.py 33-35: the
\* patents with no row in embeddings, cut at the limit when it is truthy.  No
\* filing_date is loaded, so the order of the rows is the store's choice.
Needing(patents, E, limit) ==
    LET missing == DOMAIN patents \ DOMAIN E
        n == IF limit # 0 /\ limit < Cardinality(missing)
             THEN limit ELSE Cardinality(missing)
    IN  {q \in Orders(missing) : Len(q) = n}

RECURSIVE StoreRowsConflictFails(_, _, _, _)
\* The rows written by a plain INSERT: a patent of sel that has a row makes
\* the statement fail on the key and the transaction is rolled back.
StoreRowsConflictFails(E, sel, i, prog) ==
    IF i > Len(sel) THEN E
    ELSE IF \E j \in i .. Len(sel) : sel[j] \in DOMAIN E THEN E
    ELSE LET fresh ==
                 [qdrant_id |-> IF prog = "service" THEN Some(Str(i - 1)) ELSE None,
                  model |-> CASE prog = "service" -> "model_id"
                              [] prog = "simple" -> "text-hash"
                              [] OTHER -> "all-MiniLM-L6-v2",
                  refreshed |-> FALSE]
         IN  StoreRowsConflictFails(Put(E, sel[i], fresh), sel, i + 1, prog)

RECURSIVE StoreRows(_, _, _, _)
\* The rows written for the patents of sel from position i on, by program.
\* generate_embeddings.py 118-123: ON CONFLICT refreshes the vector and
\* updated_at.  ml_services.py 134-144: the row carries qdrant_id = str(idx),
\* ON CONFLICT sets updated_at alone.  generate_embeddings_simple.py 67: ON
\* CONFLICT DO NOTHING.
StoreRows(E, sel, i, prog) ==
    IF i > Len(sel) THEN E
    ELSE LET pid == sel[i]
             fresh ==
                 CASE prog = "service" ->
                        [qdrant_id |-> Some(Str(i - 1)), model |-> "model_id",
                         refreshed |-> FALSE]
                   [] prog = "simple" ->
                        [qdrant_id |-> None, model |-> "text-hash",
                         refreshed |-> FALSE]
                   [] OTHER ->
                        [qdrant_id |-> None, model |-> "all-MiniLM-L6-v2",
                         refreshed |-> FALSE]
             row == IF pid \notin DOMAIN E THEN fresh
                    ELSE IF prog = "simple" THEN E[pid]
                    ELSE [E[pid] EXCEPT !.refreshed = TRUE]
         IN  StoreRows(Put(E, pid, row), sel, i + 1, prog)

\* generate_embeddings.py 157-165, ml_services.py 125-131 and
\* populate_qdrant.py 128-139: the points built from sel, id = position.
Points(sel) ==
    [id \in 0 .. Len(sel) - 1 |-> [patent_id |-> sel[id + 1]]]

\* client.upsert: points are inserted, or replaced under their id.
Upsert(I, points) ==
    [id \in DOMAIN I \cup DOMAIN points |->
        IF id \in DOMAIN points THEN points[id] ELSE I[id]]

\* The points of I that carry patent pid.
PointsOf(I, pid) == {id \in DOMAIN I : I[id].patent_id = pid}

Idle(w) == wpc[w] \in {"idle", "nothing", "done", "failed"}

LastTwo(q) == IF Len(q) > 2 THEN SubSeq(q, Len(q) - 1, Len(q)) ELSE q

SyncIdle ==
    /\ embeddings = EmptyTable
    /\ index = EmptyTable
    /\ wpc = [w \in Writers |-> "idle"]
    /\ wprog = [w \in Writers |-> "none"]
    /\ wsel = [w \in Writers |-> <<>>]
    /\ syncs = 0
    /\ synclog = <<>>

\* generate_embeddings.py 197-228 (prog "script", or "script_skip" with
\* --skip-qdrant) and generate_embeddings_simple.py 51-57 (prog "simple"):
\* the script starts and selects its patents; with none it returns.
SyncSelect(w, prog, limit, sel) ==
    /\ Idle(w)
    /\ syncs < MaxSyncs
    /\ prog \in {"script", "script_skip", "simple"}
    /\ sel \in Needing(db.patents, embeddings, limit)
    /\ syncs' = syncs + 1
    /\ wprog' = [wprog EXCEPT ![w] = IF sel = <<>> THEN "none" ELSE prog]
    /\ wsel' = [wsel EXCEPT ![w] = sel]
    /\ wpc' = [wpc EXCEPT ![w] = IF sel = <<>> THEN "nothing" ELSE "selected"]
    /\ UNCHANGED <<embeddings, index, synclog>>

\* generate_embeddings.py 86-112 with 234-239 and 253-255: model.encode
\* fails on the batch, nothing is generated, nothing is stored, and
\* embeddings_data[0] ends the script with exit status 1.
SyncEncodeFails(w) ==
    /\ wpc[w] = "selected"
    /\ wprog[w] \in {"script", "script_skip"}
    /\ wpc' = [wpc EXCEPT ![w] = "failed"]
    /\ wprog' = [wprog EXCEPT ![w] = "none"]
    /\ wsel' = [wsel EXCEPT ![w] = <<>>]
    /\ UNCHANGED <<embeddings, index, syncs, synclog>>

\* generate_embeddings.py 114-135 and generate_embeddings_simple.py 59-70: the
\* rows are written and committed, or the transaction is rolled back and the
\* script ends.
SyncStorePg(w, ok) ==
    /\ wpc[w] = "selected"
    /\ wprog[w] \in {"script", "script_skip", "simple"}
    /\ embeddings' = IF ok THEN StoreRows(embeddings, wsel[w], 1, wprog[w])
                     ELSE embeddings
    /\ wpc' = [wpc EXCEPT ![w] =
                  IF ~ok THEN "failed"
                  ELSE IF wprog[w] = "script" THEN "stored" ELSE "done"]
    /\ wprog' = [wprog EXCEPT ![w] = IF wpc'[w] = "stored" THEN @ ELSE "none"]
    /\ wsel' = [wsel EXCEPT ![w] = IF wpc'[w] = "stored" THEN @ ELSE <<>>]
    /\ UNCHANGED <<index, syncs, synclog>>

\* ml_services.py 119-146: store_embeddings(embeddings) writes one row per
\* item of the dict and commits.
ServiceStore(w, sel) ==
    /\ Idle(w)
    /\ syncs < MaxSyncs
    /\ sel \in Orders(DOMAIN db.patents)
    /\ sel # <<>>
    /\ syncs' = syncs + 1
    /\ wprog' = [wprog EXCEPT ![w] = "service"]
    /\ wsel' = [wsel EXCEPT ![w] = sel]
    /\ embeddings' = StoreRows(embeddings, sel, 1, "service")
    /\ wpc' = [wpc EXCEPT ![w] = "stored"]
    /\ UNCHANGED <<index, synclog>>

\* generate_embeddings.py 137-176 with 237-255, and ml_services.py 148-153:
\* the points are upserted, or the index fails and the exception ends the
\* invocation.
SyncStoreQdrant(w, ok) ==
    /\ wpc[w] = "stored"
    /\ index' = IF ok THEN Upsert(index, Points(wsel[w])) ELSE index
    /\ wpc' = [wpc EXCEPT ![w] = IF ok THEN "done" ELSE "failed"]
    /\ synclog' = IF ok THEN LastTwo(Append(synclog, wsel[w])) ELSE synclog
    /\ wprog' = [wprog EXCEPT ![w] = "none"]
    /\ wsel' = [wsel EXCEPT ![w] = <<>>]
    /\ UNCHANGED <<embeddings, syncs>>

RECURSIVE Filter(_, _)
Filter(q, S) ==
    IF q = <<>> THEN <<>>
    ELSE IF Head(q) \in S THEN <<Head(q)>> \o Filter(Tail(q), S)
    ELSE Filter(Tail(q), S)

\* populate_qdrant.py 120-157: every patent, ordered by patent_id, gets the
\* point id of its position; the upload of the batch may fail and is logged.
\* Through main (271-288) init_collection (44-66) first deletes the
\* collection and creates it again: fresh.
Populate(fresh, ok) ==
    /\ syncs < MaxSyncs
    /\ syncs' = syncs + 1
    /\ LET start == IF fresh THEN EmptyTable ELSE index
       IN  index' = IF ok
                    THEN Upsert(start,
                                Points(Filter(Ascending, DOMAIN db.patents)))
                    ELSE start
    /\ UNCHANGED <<embeddings, wpc, wprog, wsel, synclog>>

-----------------------------------------------------------------------------
(* Two calls of PatentDataLoader.load_patents at the same time.  Each holds  *)
(* the one transaction of its batch (ingest.py 145); the store runs them at  *)
(* READ COMMITTED: a statement on a row that the open transaction of the     *)
(* other call has written waits until that transaction ends, and two calls   *)
(* waiting for each other are a deadlock, which the store ends by refusing   *)
(* the statement of one of them.                                             *)

Calls == {"r1", "r2"}
Other(r) == CHOOSE o \in Calls : o # r

Stmt(op, table, key) == [op |-> op, table |-> table, key |-> key]

\* ingest.py 207-239: the statements of the assignees from list index i on; an
\* element that is no dict makes assignee.get raise.
RECURSIVE AssigneeStatements(_, _, _)
AssigneeStatements(patent_id, assignees, i) ==
    IF i > Len(assignees) THEN <<>>
    ELSE LET assignee == assignees[i]
         IN  IF ~assignee.dict THEN <<Stmt("raise", "", <<>>)>>
             ELSE IF ~Truthy(assignee.assignee_id)
                  THEN AssigneeStatements(patent_id, assignees, i + 1)
             ELSE <<Stmt("upsert", "assignees", <<assignee.assignee_id[1]>>),
                    Stmt("insert", "patent_assignees",
                         <<patent_id, assignee.assignee_id[1]>>)>>
                  \o AssigneeStatements(patent_id, assignees, i + 1)

\* ingest.py 246-277
RECURSIVE InventorStatements(_, _, _)
InventorStatements(patent_id, inventors, i) ==
    IF i > Len(inventors) THEN <<>>
    ELSE LET inventor == inventors[i]
         IN  IF ~inventor.dict THEN <<Stmt("raise", "", <<>>)>>
             ELSE IF ~Truthy(inventor.inventor_id)
                  THEN InventorStatements(patent_id, inventors, i + 1)
             ELSE <<Stmt("upsert", "inventors", <<inventor.inventor_id[1]>>),
                    Stmt("insert", "patent_inventors",
                         <<patent_id, inventor.inventor_id[1]>>)>>
                  \o InventorStatements(patent_id, inventors, i + 1)

\* ingest.py 147-277: the statements one record sends to the store, in order,
\* up to the Python exception if there is one.
Statements(patent) ==
    IF ~Truthy(patent.patent_id) THEN <<>>
    ELSE LET pid == patent.patent_id[1]
             a == AssigneeStatements(pid, AsList(patent.assignees), 1)
             v == InventorStatements(pid, AsList(patent.inventors), 1)
         IN  <<Stmt("upsert", "patents", <<pid>>)>> \o
             (IF a # <<>> /\ a[Len(a)].op = "raise" THEN a ELSE a \o v)

\* The keys of the committed rows of a table.
KeysOf(S, table) ==
    CASE table = "patents" -> {<<k>> : k \in DOMAIN S.patents}
      [] table = "assignees" -> {<<k>> : k \in DOMAIN S.assignees}
      [] table = "inventors" -> {<<k>> : k \in DOMAIN S.inventors}
      [] table = "patent_assignees" ->
            {LinkKey(l) : l \in BagToSet(S.patent_assignees)}
      [] table = "patent_inventors" ->
            {LinkKey(l) : l \in BagToSet(S.patent_inventors)}

\* The row lock a statement takes: ON CONFLICT DO UPDATE locks the row it
\* inserts or updates, ON CONFLICT DO NOTHING only the row it inserts.
Locks(s, committed) ==
    IF s.op = "insert" /\ s.key \in KeysOf(committed, s.table) THEN {}
    ELSE {<<s.table, s.key>>}

\* ingest.py 147-284 over a whole batch, in one transaction.
RECURSIVE LoadAll(_, _, _, _)
LoadAll(S, batch, i, now) ==
    IF i > Len(batch) THEN S
    ELSE LoadAll(LoadRecord(S, batch[i], "none", now), batch, i + 1, now)

\* Bound: records of a batch.
MaxPageLen == 2

\* The batches the two calls are given: records sharing patents and
\* assignees, in any order.
Pages ==
    LET recs == {RawP4, RawP2, RawP1}
    IN  {q \in UNION {[1 .. n -> recs] : n \in 1 .. MaxPageLen} :
            \A i, j \in DOMAIN q : i # j => q[i] # q[j]}

ConcIdle ==
    /\ cphase = [r \in Calls |-> "idle"]
    /\ cbatch = [r \in Calls |-> <<>>]
    /\ cat = [r \in Calls |-> [rec |-> 1, stmt |-> 1]]
    /\ held = [r \in Calls |-> {}]
    /\ caborted = [r \in Calls |-> FALSE]
    /\ cstats = [r \in Calls |-> EmptyStats]

\* ingest.py 138-145: stats initialised, engine.begin() opens the transaction.
ConcBegin(r, batch) ==
    /\ cphase[r] = "idle"
    /\ cphase' = [cphase EXCEPT ![r] = "loading"]
    /\ cbatch' = [cbatch EXCEPT ![r] = batch]
    /\ UNCHANGED <<db, cat, held, caborted, cstats>>

\* The statement the call is at, if it is at one.
AtStatement(r) ==
    /\ cphase[r] = "loading"
    /\ cat[r].rec <= Len(cbatch[r])
Current(r) == Statements(cbatch[r][cat[r].rec])[cat[r].stmt]

\* The call waits for a row lock of the other call's transaction.
Waits(r) ==
    /\ AtStatement(r)
    /\ Statements(cbatch[r][cat[r].rec]) # <<>>
    /\ ~caborted[r]
    /\ Current(r).op # "raise"
    /\ <<Current(r).table, Current(r).key>> \in held[Other(r)]

NextRecord(r) == [cat EXCEPT ![r] = [rec |-> @.rec + 1, stmt |-> 1]]

\* ingest.py 147-284: the next statement of the loop body is executed.  A
\* record without patent_id is left by continue (149-152); an exception,
\* of Python or of the store, is counted at 281-284; after the last statement
\* of the record inserted is counted (279).
ConcStatement(r) ==
    /\ AtStatement(r)
    /\ ~Waits(r)
    /\ LET stmts == Statements(cbatch[r][cat[r].rec])
       IN  IF stmts = <<>>
           THEN /\ cat' = NextRecord(r)
                /\ UNCHANGED <<held, cstats>>
           ELSE IF caborted[r] \/ Current(r).op = "raise"
           THEN /\ cat' = NextRecord(r)
                /\ cstats' = [cstats EXCEPT ![r].errors = @ + 1]
                /\ UNCHANGED held
           ELSE /\ held' = [held EXCEPT ![r] = @ \cup Locks(Current(r), db)]
                /\ IF cat[r].stmt = Len(stmts)
                   THEN /\ cat' = NextRecord(r)
                        /\ cstats' = [cstats EXCEPT ![r].inserted = @ + 1]
                   ELSE /\ cat' = [cat EXCEPT ![r].stmt = @ + 1]
                        /\ UNCHANGED cstats
    /\ UNCHANGED <<db, cphase, cbatch, caborted>>

\* Both calls wait for each other: the store refuses the statement of one
\* with "deadlock detected", which aborts its transaction and releases its
\* locks; the exception is counted at 281-284.
ConcDeadlock(r) ==
    /\ Waits(r)
    /\ Waits(Other(r))
    /\ caborted' = [caborted EXCEPT ![r] = TRUE]
    /\ held' = [held EXCEPT ![r] = {}]
    /\ cat' = NextRecord(r)
    /\ cstats' = [cstats EXCEPT ![r].errors = @ + 1]
    /\ UNCHANGED <<db, cphase, cbatch>>

\* ingest.py 285-286: the with block is left, the transaction commits (an
\* aborted one is rolled back), and stats is returned.
ConcReturn(r) ==
    /\ cphase[r] = "loading"
    /\ cat[r].rec > Len(cbatch[r])
    /\ db' = Commit(db,
                    LoadAll([T |-> db, aborted |-> FALSE, stats |-> EmptyStats],
                            cbatch[r], 1, dbclock).T,
                    caborted[r])
    /\ held' = [held EXCEPT ![r] = {}]
    /\ cphase' = [cphase EXCEPT ![r] = "returned"]
    /\ UNCHANGED <<cbatch, cat, caborted, cstats>>

-----------------------------------------------------------------------------
(* Specifications *)

NextRun ==
    \/ RunStart
    \/ \E resp \in Responses : RunAttempt(resp)
    \/ RunCapReached
    \/ RunEmptyPage
    \/ RunLoadBegin
    \/ RunLoadNext
    \/ RunLoadReturn
    \/ RunLoadRaise
    \/ RunAdvance
    \/ Crash

InitRun == LoadInit /\ RunInit /\ FetchInit /\ SyncIdle /\ ConcIdle /\ NoSignal

\* Runs of ingest_patents over an upstream, with crashes.
SpecRun == InitRun /\ [][NextRun]_vars

InitRunFair == InitRun /\ refused = {}

\* Runs against a store that refuses nothing, when the process keeps taking
\* steps.
SpecRunFair == InitRunFair /\ [][NextRun]_vars /\ WF_vars(NextRun)

\* Runs whose operator may ask them to stop.
NextCancel == NextRun \/ Cancel
SpecCancel == InitRun /\ [][NextCancel]_vars

\* A run that never starts.
RunIdle ==
    /\ upstream = <<>>
    /\ refused = {}
    /\ rpc = "idle"
    /\ since = 0
    /\ offset = 0
    /\ page = <<>>
    /\ todo = <<>>
    /\ all_stats = ZeroTotals
    /\ runs = 0
    /\ pagesAsked = <<>>
    /\ snap = <<>>
    /\ crashedAfterLoad = FALSE
    /\ met = {}
    /\ result = <<>>

notLoad == <<runVars, fetchVars, syncVars, concVars, sigVars>>

NextLoad ==
    \/ (dbclock < MaxLoads /\ LoadBegin /\ UNCHANGED notLoad)
    \/ \E patent \in Catalogue, fail \in FailKinds :
          nrec < MaxBatchLen /\ LoadNext(patent, fail) /\ UNCHANGED notLoad
    \/ (LoadReturn /\ UNCHANGED notLoad)
    \/ (LoadRaise /\ UNCHANGED notLoad)

InitLoad == LoadInit /\ RunIdle /\ FetchInit /\ SyncIdle /\ ConcIdle /\ NoSignal

\* Calls of load_patents on batches drawn from the catalogue.
SpecLoad == InitLoad /\ [][NextLoad]_vars

notFetch == <<loadVars, runVars, syncVars, concVars, sigVars>>

NextFetch ==
    \/ \E s \in {None, Some(Today - since_days)}, off \in {0, batch_size} :
          FetchCall(s, batch_size, off) /\ UNCHANGED notFetch
    \/ (FetchRateLimit /\ UNCHANGED notFetch)
    \/ \E resp \in Responses : FetchSend(resp) /\ UNCHANGED notFetch
    \/ \E seconds \in 0 .. Expo(max_tries) :
          FetchBackoff(seconds) /\ UNCHANGED notFetch
    \/ (Tick /\ UNCHANGED notFetch)

InitFetch == LoadInit /\ RunIdle /\ FetchInit /\ SyncIdle /\ ConcIdle /\ NoSignal

\* Calls of fetch_patents on one client.
SpecFetch == InitFetch /\ [][NextFetch]_vars

notSync == <<runVars, fetchVars, concVars, sigVars>>

NextSync ==
    \/ \E w \in Writers, prog \in {"script", "script_skip", "simple"},
          limit \in 0 .. MaxLimit :
          \E sel \in Needing(db.patents, embeddings, limit) :
             SyncSelect(w, prog, limit, sel) /\ UNCHANGED <<loadVars, notSync>>
    \/ \E w \in Writers : SyncEncodeFails(w) /\ UNCHANGED <<loadVars, notSync>>
    \/ \E w \in Writers, ok \in BOOLEAN :
          SyncStorePg(w, ok) /\ UNCHANGED <<loadVars, notSync>>
    \/ \E w \in Writers, sel \in Orders(DOMAIN db.patents) :
          ServiceStore(w, sel) /\ UNCHANGED <<loadVars, notSync>>
    \/ \E w \in Writers, ok \in BOOLEAN :
          SyncStoreQdrant(w, ok) /\ UNCHANGED <<loadVars, notSync>>
    \/ \E fresh \in BOOLEAN, ok \in BOOLEAN :
          Populate(fresh, ok) /\ UNCHANGED <<loadVars, notSync>>

\* The store after a load of two patents, nothing embedded yet.
InitSync ==
    /\ db = SyncStore
    /\ tx = SyncStore
    /\ txAborted = FALSE
    /\ stats = EmptyStats
    /\ lpc = "idle"
    /\ dbclock = 1
    /\ nrec = 0
    /\ last = <<>>
    /\ hist = EmptyHist
    /\ before = SyncStore
    /\ RunIdle
    /\ FetchInit
    /\ SyncIdle
    /\ ConcIdle
    /\ NoSignal

\* Invocations of the embedding writers, one after another or interleaved.
SpecSync == InitSync /\ [][NextSync]_vars

notConc == <<tx, txAborted, stats, lpc, dbclock, nrec, last, hist, before,
             runVars, fetchVars, syncVars, sigVars>>
NextConc ==
    \/ \E r \in Calls, batch \in Pages : ConcBegin(r, batch) /\ UNCHANGED notConc
    \/ \E r \in Calls : ConcStatement(r) /\ UNCHANGED notConc
    \/ \E r \in Calls : ConcDeadlock(r) /\ UNCHANGED notConc
    \/ \E r \in Calls : ConcReturn(r) /\ UNCHANGED notConc

InitConc == LoadInit /\ RunIdle /\ FetchInit /\ SyncIdle /\ ConcIdle /\ NoSignal

\* Two calls of load_patents on an empty store, their statements interleaved.
SpecConc == InitConc /\ [][NextConc]_vars
-----------------------------------------------------------------------------
(* Claims about ingest_patents, under SpecRun *)

\* C2. Idempotence of ingestion: a run that completes after an earlier
\* completed run over the same upstream leaves the row counts of patents,
\* assignees, inventors, patent_assignees, patent_inventors and citations as
\* the earlier run left them.
C2_Idempotence ==
    (rpc = "done" /\ snap # <<>>) => Counts(db) = snap[1]

\* A second run has completed over a store that holds patents, entities and
\* links.
C2_Witness ==
    /\ rpc = "done"
    /\ snap # <<>>
    /\ all_stats.batches_processed = 2
    /\ Counts(db).patents >= 2
    /\ Counts(db).patent_assignees >= 2
    /\ Counts(db).patent_inventors >= 1

\* C7. The watermark (the latest committed publication date) moves only in
\* the step in which load_patents commits and returns, and the offset of the
\* next fetch moves only after a load has returned (or is reset by a new run).
WatermarkStep ==
    get_last_ingestion_date(db)' # get_last_ingestion_date(db)
        => rpc = "loading" /\ todo = <<>> /\ rpc' = "loaded"

OffsetStep ==
    offset' # offset
        => \/ rpc = "loaded" /\ offset' = offset + batch_size
           \/ rpc' = "loop" /\ runs' = runs + 1 /\ offset' = 0

Loadable(r) ==
    /\ Truthy(r.patent_id)
    /\ r.patent_id[1] \notin refused
    /\ OwnWritesSucceed(r, "none")

\* C8. Watermark safety: after a crash that followed a Loading step, a re-run
\* that completes leaves every record of the upstream window in the store.
C8_WatermarkSafety ==
    (rpc = "done" /\ crashedAfterLoad) =>
        LET w == SelectFrom(upstream, since)
        IN  \A i \in 1 .. Len(w) :
                Loadable(w[i]) => w[i].patent_id[1] \in DOMAIN db.patents

\* A run crashed after a load and a later run completed.
C8_Witness ==
    rpc = "done" /\ crashedAfterLoad /\ all_stats.batches_processed >= 1

-----------------------------------------------------------------------------
(* Claims about fetch_patents, under SpecFetch *)

\* The failures the interface calls transient.
Transient == {"network", "timeout", "http_5xx", "http_429"}

AllTransient == \A i \in 1 .. Len(attempts) : attempts[i].resp \in Transient

\* C9. A call whose attempts all met a transient failure goes on to another
\* attempt until max_tries attempts are made, never makes more, and then
\* raises (the outcome Exhausted); and a timeout is decided at every attempt
\* exactly as a network error is.
C9_TransientRetried ==
    /\ Len(attempts) <= max_tries
    /\ (attempts # <<>> /\ AllTransient) =>
          IF Len(attempts) < max_tries
          THEN fpc \in {"backoff", "enter", "send"}
          ELSE fpc = "raised"
    /\ \A n \in 1 .. max_tries :
          AfterAttempt("timeout", n) = AfterAttempt("network", n)

\* A call met a timeout, a 5xx and a network error, and raised after the
\* third attempt.
C9_Witness ==
    /\ fpc = "raised"
    /\ Len(attempts) = max_tries
    /\ attempts[1].resp = "timeout"
    /\ attempts[2].resp = "http_5xx"
    /\ attempts[3].resp = "network"

\* C10. An attempt answered with HTTP 4xx other than 429 is the last attempt
\* of its call, and the call has raised: a fetch whose first answer is such a
\* status makes exactly one attempt.
C10_PermanentOnce ==
    \A i \in 1 .. Len(attempts) :
        attempts[i].resp = "http_4xx" => i = Len(attempts) /\ fpc = "raised"

-----------------------------------------------------------------------------
(* Claims about the embedding writers, under SpecSync *)

Quiet == \A w \in Writers : Idle(w)

\* C4. When no writer is at work, every embeddings row that records a vector
\* id v for patent p has a point with id v in the index whose payload
\* patent_id is p.
C4_SyncedRowHasPoint ==
    Quiet =>
        \A pid \in DOMAIN embeddings :
            embeddings[pid].qdrant_id # None =>
                LET v == ParseInt(embeddings[pid].qdrant_id[1])
                IN  v \in DOMAIN index /\ index[v].patent_id = pid

\* No step replaces the payload patent of a point.
NoOverwrite ==
    \A id \in DOMAIN index \cap DOMAIN index' :
        index'[id].patent_id = index[id].patent_id

\* A patent's points all have one id.
OneIdPerPatent ==
    \A a, b \in DOMAIN index : index[a].patent_id = index[b].patent_id => a = b

\* C5. The point id is a function of patent_id alone: no step writes the
\* point of one patent over the point that carries another patent's payload,
\* and no patent is ever carried by points under two ids.
C5_VectorIdByPatent == [][NoOverwrite /\ OneIdPerPatent']_vars

Position(q, p) == CHOOSE i \in 1 .. Len(q) : q[i] = p

\* C6. Vector sync idempotence: when the last two invocations that wrote to
\* the index ran over the same set of patents, the index holds exactly one
\* point for each patent of the set, and each patent was written under the
\* same point id by both.
C6_SyncIdempotence ==
    (Quiet /\ Len(synclog) = 2 /\ Range(synclog[1]) = Range(synclog[2])) =>
        \A p \in Range(synclog[2]) :
            /\ Cardinality(PointsOf(index, p)) = 1
            /\ Position(synclog[1], p) = Position(synclog[2], p)

-----------------------------------------------------------------------------
(* Further claims about fetch_patents, under SpecFetch *)

\* The call met two transient failures and then a success.
TwoFailuresThenSuccess ==
    /\ Len(attempts) = 3
    /\ attempts[1].resp \in Transient
    /\ attempts[2].resp \in Transient
    /\ attempts[3].resp = "ok"

\* C11. Backoff: a call that meets two transient failures goes on to a third
\* attempt, and when that one succeeds the call has made exactly 3 attempts,
\* has returned, and the time between attempts 2 and 3 is not shorter than
\* the time between attempts 1 and 2.
C11_Backoff ==
    /\ (Len(attempts) = 2 /\ AllTransient) => fpc \in {"backoff", "enter", "send"}
    /\ TwoFailuresThenSuccess =>
          /\ fpc = "returned"
          /\ tries = 3
          /\ Len(gaps) = 2
          /\ gaps[2] >= gaps[1]

\* Two transient failures, then a success after a longer second wait.
C11_Witness ==
    /\ TwoFailuresThenSuccess
    /\ attempts[1].resp = "http_429"
    /\ fpc = "returned"
    /\ gaps[2] > gaps[1]

\* Two requests of the client in a row are at least the interval apart.
Separated ==
    last_request_time' # last_request_time =>
        last_request_time' - last_request_time >= Interval

\* The requests sent so far span at least (N - 1) intervals.
SpanOfRequests ==
    nreq >= 1 => last_request_time - firstAt[1] >= (nreq - 1) * Interval

\* C12. Rate limiting: every request of one client leaves at least
\* 1 / rate_limit_per_sec after the request before it, so the N requests sent
\* so far took at least (N - 1) / rate_limit_per_sec.
C12_RateLimit == [][Separated]_vars /\ []SpanOfRequests

\* Two calls, three requests or more, each sent as early as the limiter lets.
C12_Witness ==
    /\ calls = 2
    /\ nreq >= 3
    /\ fpc = "send"
    /\ last_request_time - firstAt[1] = (nreq - 1) * Interval

-----------------------------------------------------------------------------
(* Further claims about ingest_patents, under SpecRun and SpecRunFair *)

InLoop == rpc \in {"loop", "fetched", "loading", "loaded"}

\* A stop condition of the loop: the page was empty or short, or the cap on
\* the batches of a run is reached.
StopCondition ==
    \/ rpc \in {"fetched", "done"} /\ page = <<>>
    \/ all_stats.batches_processed >= 1 /\ Len(page) < batch_size
    \/ all_stats.batches_processed >= max_batches

\* A run that has left its loop normally did so on a stop condition, and no
\* run processes or asks for more than max_batches pages.
StoppedForCause ==
    /\ rpc = "done" => StopCondition
    /\ all_stats.batches_processed <= max_batches
    /\ Len(pagesAsked) <= max_batches

\* A page is asked for only when no stop condition holds.
FetchOnlyWithoutStop ==
    (rpc = "loop" /\ Len(pagesAsked') > Len(pagesAsked)) => ~StopCondition

\* C13. The loop of a run stops exactly on a stop condition (empty page, page
\* shorter than batch_size, max_batches batches processed): it fetches again
\* only when none holds, leaves normally only when one holds, asks for at
\* most max_batches pages, and every run that is in its loop leaves it.
C13_LoopStops ==
    /\ []StoppedForCause
    /\ [][FetchOnlyWithoutStop]_vars
    /\ (InLoop ~> ~InLoop)

\* A run stopped on the cap after max_batches full pages.
C13_Witness ==
    /\ rpc = "done"
    /\ all_stats.batches_processed = max_batches
    /\ Len(page) = batch_size
    /\ Len(pagesAsked) = max_batches

\* The run has ended with an exception: the terminal state Failed.
Failed == rpc = "raised"

\* After a permanent fetch error or a failure of the store for the whole
\* batch the run is Failed.
FailureEndsRun == met # {} => Failed

\* A run that is Failed asks for no page.
NoFetchAfterFailed == Failed => (pagesAsked' = pagesAsked \/ runs' # runs)

\* Whatever the record errors of the batch, the step after a load goes back
\* to the head of the loop unless the page was short.
RecordErrorsGoOn ==
    (rpc = "loaded" /\ stats.errors > 0 /\ rpc' \in {"loop", "done"}) =>
        (rpc' = "loop" <=> Len(page) = batch_size)

\* C14. A permanent fetch error, or a failure of the store for a whole batch,
\* ends the run as Failed and no further page is fetched; record errors of a
\* batch never end the loop.
C14_FailureStopsRun ==
    []FailureEndsRun /\ [][NoFetchAfterFailed /\ RecordErrorsGoOn]_vars

\* A page was answered with a permanent error and the run is Failed.
C14_Witness == Failed /\ "permanent" \in met /\ all_stats.batches_processed = 1

\* A run that has ended, Done or Failed, has returned its totals.
SummaryAtEnd == rpc \in {"done", "raised"} => result = <<all_stats>>

\* The errors of every loaded batch, which are at least the records that
\* failed on their own, go into the totals.
ErrorsCounted ==
    (rpc = "loaded" /\ rpc' \in {"loop", "done"}) =>
        /\ all_stats'.total_errors = all_stats.total_errors + stats.errors
        /\ stats.errors >= hist.nfailed

\* A run becomes Failed only in a fetch or through a failure of the store
\* for the whole batch.
FailedForCause ==
    (rpc # "raised" /\ rpc' = "raised") =>
        rpc = "loop" \/ "infrastructure" \in met'

\* C15. Every run ends, and a run that has ended as Done or Failed has
\* produced its summary; record errors are in the summary counts and the run
\* is Failed only for a fetch failure or a failure of the store.
C15_RunSummary ==
    /\ []SummaryAtEnd
    /\ [][ErrorsCounted /\ FailedForCause]_vars
    /\ (InLoop ~> rpc \in {"done", "raised", "crashed"})

\* A run ended Done with record errors in its summary.
C15_Witness ==
    /\ rpc = "done"
    /\ result # <<>>
    /\ result[1].total_errors >= 1
    /\ result[1].total_inserted >= 1

-----------------------------------------------------------------------------
(* Further claims about the embedding writers, under SpecSync *)

\* The patent has a point in the index, or a writer at work has selected it.
Covered(p) ==
    \/ PointsOf(index, p) # {}
    \/ \E w \in Writers : wpc[w] \in {"selected", "stored"} /\ p \in Range(wsel[w])

\* A row whose patent has no point: what the interface calls pending.
Pending(p) == p \in DOMAIN embeddings /\ PointsOf(index, p) = {}

\* An invocation that ends at its selection with nothing to do leaves no
\* patent without a point: it would have selected the pending ones.
NothingToDoMeansSynced ==
    \A w \in Writers :
        (wpc[w] # "nothing" /\ wpc'[w] = "nothing") =>
            \A p \in DOMAIN db.patents : Covered(p)

\* C16. Eventual consistency of the two stores: the patents whose rows were
\* written while the index was unavailable are selected again by a later
\* invocation, so an invocation finds nothing to select only when every
\* patent has its point.
C16_EventualSync == [][NothingToDoMeansSynced]_vars

\* An invocation failed at the index, and a later one found nothing to do.
C16_Witness ==
    /\ wpc["w1"] = "failed"
    /\ wpc["w2"] = "nothing"
    /\ \E p \in DOMAIN db.patents : Pending(p)

\* The row names its point in the index: the only mark of a finished
\* synchronisation that a row carries.
Marked(E, p) == p \in DOMAIN E /\ E[p].qdrant_id # None

\* A writer upserts the points of its selection only when their rows are
\* committed.
RowBeforePoint ==
    \A w \in Writers :
        (wpc[w] = "stored" /\ wpc'[w] = "done") =>
            \A p \in Range(wsel[w]) : p \in DOMAIN embeddings

\* A row gets its mark only when the point is in the index.
MarkAfterPoint ==
    \A p \in DOMAIN db.patents :
        (~Marked(embeddings, p) /\ Marked(embeddings, p)') =>
            PointsOf(index, p) # {}

\* When the upsert of the points fails, no row of the selection gets a mark.
FailedUpsertLeavesUnmarked ==
    \A w \in Writers :
        (wpc[w] = "stored" /\ wpc'[w] = "failed") =>
            \A p \in Range(wsel[w]) :
                Marked(embeddings, p)' => PointsOf(index, p)' # {}

\* C17. Embedding sync write order: the row of a patent is committed before
\* its point is upserted, the row is marked as synchronised only once the
\* point is in the index, and a failed upsert leaves the row unmarked.
C17_WriteOrder ==
    [][RowBeforePoint /\ MarkAfterPoint /\ FailedUpsertLeavesUnmarked]_vars

\* The upsert of a writer has failed after its rows were committed.
C17_Witness ==
    \E w \in Writers :
        /\ wpc[w] = "failed"
        /\ \E p \in DOMAIN embeddings : Marked(embeddings, p) /\ PointsOf(index, p) = {}

-----------------------------------------------------------------------------
(* Further claims about the loader, under SpecLoad *)

\* The count of skipped records in the statistics a load returns.
Skipped(st) == IF "skipped" \in DOMAIN st THEN st.skipped ELSE 0

\* C18. A record without patent_id is counted as skipped in the statistics
\* of the load and does not keep the other records of the batch from
\* loading: when no record of the batch failed, the statistics count the
\* records with a patent_id as inserted and the others as skipped, and the
\* former have their rows.
C18_MissingKeySkipped ==
    (lpc = "returned" /\ hist.nfailed = 0) =>
        /\ stats.inserted = hist.nclean
        /\ hist.clean \subseteq DOMAIN db.patents
        /\ Skipped(stats) = hist.nskipped

\* A batch of three records, one of them without patent_id, has returned.
C18_Witness ==
    /\ lpc = "returned"
    /\ nrec = MaxBatchLen
    /\ hist.nskipped = 1
    /\ hist.nfailed = 0
    /\ stats.inserted = nrec - 1

\* A record of the batch, whatever goes wrong with it, does not make the
\* load raise.
RecordNeverRaises == nrec' = nrec + 1 => lpc' = "loading"

\* The statistics of a load that returns account for every record.
ReturnsCounts ==
    lpc = "returned" =>
        stats.inserted + stats.errors + hist.nskipped = nrec

\* A load that raises leaves the committed rows and the watermark as they
\* were before the batch.
RaiseLeavesStore ==
    lpc = "raised" =>
        /\ db = before
        /\ get_last_ingestion_date(db) = get_last_ingestion_date(before)

-----------------------------------------------------------------------------
(* Claims about concurrent loads, under SpecConc *)

Tables == {"patents", "assignees", "inventors", "patent_assignees",
           "patent_inventors"}

\* The store after one call alone has loaded both batches.
OneAlone ==
    LoadAll([T |-> EmptyDb, aborted |-> FALSE, stats |-> EmptyStats],
            cbatch["r1"] \o cbatch["r2"], 1, dbclock).T

\* A link table holds one row per key.
OneRowPerKey(links) ==
    /\ \A l \in BagToSet(links) : CopiesIn(l, links) = 1
    /\ \A l, m \in BagToSet(links) : LinkKey(l) = LinkKey(m) => l = m

BothReturned == \A r \in Calls : cphase[r] = "returned"

\* C20. Two loads of overlapping records at the same time on one store end
\* with the keys, in every table, that one load alone leaves, one link row
\* per key, and neither has counted an error.
C20_ConcurrentLoads ==
    BothReturned =>
        /\ \A t \in Tables : KeysOf(db, t) = KeysOf(OneAlone, t)
        /\ OneRowPerKey(db.patent_assignees)
        /\ OneRowPerKey(db.patent_inventors)
        /\ \A r \in Calls : cstats[r].errors = 0

\* Both loads have returned, their batches share a record, and one of them
\* met a deadlock.
C20_Witness ==
    /\ BothReturned
    /\ \E i \in DOMAIN cbatch["r1"], j \in DOMAIN cbatch["r2"] :
          cbatch["r1"][i] = cbatch["r2"][j]
    /\ \E r \in Calls : caborted[r]

-----------------------------------------------------------------------------
(* Claims about a run asked to stop, under SpecCancel *)

Cancelled == runs > 0 /\ cancel = runs

\* The run is at the check of its loop condition, between two batches.
AtCheck == rpc = "loop" /\ tries = 0

\* C21. Cancellation: a run that was asked to stop and is at the check
\* between two batches ends there: it fetches no further page and the store,
\* hence the watermark, stays as the last committed batch left it.
C21_Cancellation ==
    [][(Cancelled /\ AtCheck) =>
          /\ rpc' \in {"done", "crashed"}
          /\ pagesAsked' = pagesAsked
          /\ db' = db]_vars

\* A run asked to stop is at the check after a batch it has loaded.
C21_Witness ==
    /\ Cancelled
    /\ AtCheck
    /\ all_stats.batches_processed > 0

-----------------------------------------------------------------------------
(* Further claims about ingest_patents, under SpecRun *)

\* max(persisted watermark, now - since_days), the watermark being the
\* newest committed publication date.
SinceOf(store) ==
    LET w == get_last_ingestion_date(store)
        floor == Today - since_days
    IN  IF w # None /\ w[1] > floor THEN w[1] ELSE floor

\* C22. A run that starts takes max(persisted watermark, now - since_days)
\* as the lower bound of its fetch window.
C22_SinceFromWatermark ==
    [][runs' = runs + 1 => since' = SinceOf(db)]_vars

\* A run has started on a store whose watermark is later than
\* now - since_days.
C22_Witness ==
    /\ runs = MaxRuns
    /\ rpc = "loop"
    /\ pagesAsked = <<>>
    /\ SinceOf(db) > Today - since_days

-----------------------------------------------------------------------------
(* Further claims about the embedding writers, under SpecSync *)

\* The patents a selection may take: those without a row and those whose
\* row has no point in the index yet.
Eligible == {p \in DOMAIN db.patents : p \notin DOMAIN embeddings \/ Pending(p)}

Min(a, b) == IF a < b THEN a ELSE b

\* What the selection of a writer returns in the present state, for a limit.
SelectionRight(limit, q) ==
    /\ limit # 0 => Len(q) <= limit
    /\ \A p \in Range(q) : p \in Eligible
    /\ Len(q) = IF limit # 0 THEN Min(limit, Cardinality(Eligible))
                ELSE Cardinality(Eligible)

\* C23. In every state a selection takes at most limit patents, only
\* patents without a row or with a row that has no point yet, never a patent
\* whose row has its point, and it does not pass over eligible patents while
\* it has room for them.
C23_Selection ==
    \A limit \in 0 .. MaxLimit :
        \A q \in Needing(db.patents, embeddings, limit) :
            SelectionRight(limit, q)

\* A writer has selected while the row of another patent has no point.
C23_Witness ==
    /\ \E w \in Writers : wpc[w] = "selected" /\ wsel[w] # <<>>
    /\ \E p \in DOMAIN db.patents : Pending(p)

\* C24. A failure to write to the index is not fatal to an invocation: a
\* writer whose rows are committed and that is at its write to the index
\* ends normally.
C24_IndexFailureNotFatal ==
    [][\A w \in Writers : wpc[w] = "stored" => wpc'[w] # "failed"]_vars

\* An invocation of the script has failed at the index, its rows committed.
C24_Witness ==
    \E w \in Writers :
        /\ wpc[w] = "failed"
        /\ \E p \in DOMAIN embeddings :
              ~Marked(embeddings, p) /\ PointsOf(index, p) = {}

-----------------------------------------------------------------------------
(* Further claims about the loader's rows, under SpecLoad *)

\* Every row of a link table stays as it is.
RowsKept(links) ==
    \A l \in BagToSet(links) : CopiesIn(l, links') = CopiesIn(l, links)

\* A link table holds one position per key.
OnePosition(links) ==
    \A l, m \in BagToSet(links) : LinkKey(l) = LinkKey(m) => l = m

\* C25. Link rows are insert-if-absent and never mutated: no step changes or
\* removes a row of patent_assignees or patent_inventors, each key has one
\* position, and a load in which no record failed counts no error.
C25_LinkRowsKept ==
    /\ [][RowsKept(db.patent_assignees) /\ RowsKept(db.patent_inventors)]_vars
    /\ [](OnePosition(db.patent_assignees) /\ OnePosition(db.patent_inventors))
    /\ []((lpc = "returned" /\ hist.nfailed = 0) => stats.errors = 0)

\* p1 was loaded again from a payload that lists its assignees in another
\* order, and the link to A1 has kept the position of the first load.
C25_Witness ==
    /\ lpc = "returned"
    /\ last = <<[patent |-> RawP1Sparse, fail |-> "none"]>>
    /\ [patent_id |-> "p1", entity_id |-> "A1", position |-> 0]
          \in BagToSet(db.patent_assignees)

\* The rows of an entity table change in last_updated_at alone.
OnlyTouched(old, new) ==
    \A id \in DOMAIN old :
        /\ id \in DOMAIN new
        /\ new[id] = [old[id] EXCEPT !.last_updated_at = new[id].last_updated_at]

\* C26. An upsert of an assignee or inventor that exists changes only
\* last_updated_at: no step changes the name, the type or any other column
\* of a stored assignee or inventor row.
C26_EntityUpsert ==
    [][OnlyTouched(db.assignees, db.assignees') /\
       OnlyTouched(db.inventors, db.inventors')]_vars

\* A1 was upserted again from a payload that carries another name: the row
\* has its first name and a last_updated_at.
C26_Witness ==
    /\ lpc = "returned"
    /\ last = <<[patent |-> RawP1Sparse, fail |-> "none"]>>
    /\ "A1" \in DOMAIN db.assignees
    /\ db.assignees["A1"].name = Some("Acme")
    /\ db.assignees["A1"].last_updated_at # None

\* The row's primary_cpc_code is the first of its cpc_codes, or null.
PrimaryIsFirst(row) ==
    IF row.cpc_codes = <<>> THEN row.primary_cpc_code = None
    ELSE row.primary_cpc_code = Some(row.cpc_codes[1])

\* The load of one new record, nothing refused, has returned.
LoadedAlone ==
    /\ lpc = "returned"
    /\ nrec = 1
    /\ hist.nclean = 1
    /\ last[1].patent.patent_id[1] \notin DOMAIN before.patents

\* C27. Every stored patent row has primary_cpc_code equal to the first of
\* its cpc_codes, or null when there is none; the row inserted from a record
\* with a scalar CPC code holds the one-element list of that code.
C27_PrimaryCpc ==
    /\ \A pid \in DOMAIN db.patents : PrimaryIsFirst(db.patents[pid])
    /\ (LoadedAlone /\ last[1].patent.cpc_code.kind = "scalar") =>
          db.patents[last[1].patent.patent_id[1]].cpc_codes =
             <<last[1].patent.cpc_code.v[1]>>

\* A record with a scalar CPC code was inserted as a new row.
C27_Witness ==
    /\ LoadedAlone
    /\ last[1].patent = RawP1Sparse
    /\ db.patents["p1"].primary_cpc_code = Some("H04")

\* The well-formed cited-patent references of a record, a scalar taken as a
\* list of one.
References(patent) ==
    LET c == patent.cited_patent_id
    IN  IF c.kind \in {"list", "scalar"}
        THEN {c.v[i] : i \in {j \in 1 .. Len(c.v) : c.v[j] # ""}}
        ELSE {}

\* C28. The row inserted for a record has num_citations equal to the number
\* of the record's well-formed cited-patent references, a scalar cited id
\* counting as one, and the citations table holds one edge from the patent
\* to each of them.
C28_Citations ==
    LoadedAlone =>
        LET patent == last[1].patent
            pid == patent.patent_id[1]
        IN  /\ db.patents[pid].num_citations = Cardinality(References(patent))
            /\ \A c \in References(patent) :
                  \E e \in BagToSet(db.citations) :
                     e.citing_patent_id = pid /\ e.cited_patent_id = c

\* A record with a scalar cited id was inserted as a new row.
C28_Witness ==
    /\ LoadedAlone
    /\ last[1].patent.cited_patent_id.kind = "scalar"
    /\ db.patents["p1"].num_citations = 0

\* A load in which no record failed has returned, and its last record has
\* a patent_id.
LoadedClean ==
    /\ lpc = "returned"
    /\ hist.nfailed = 0
    /\ last # <<>>
    /\ Truthy(last[1].patent.patent_id)

\* C29. A successful load of a patent_id that exists replaces raw_data by
\* the payload loaded and refreshes last_updated_at, and a load of patents
\* that all exist leaves the set of patents rows as it was.
C29_RawPayloadReplaced ==
    /\ LoadedClean =>
          LET patent == last[1].patent
              pid == patent.patent_id[1]
          IN  /\ db.patents[pid].raw_data = JsonDumps(patent)
              /\ pid \in DOMAIN before.patents =>
                    db.patents[pid].last_updated_at = Some(dbclock)
    /\ (lpc = "returned" /\ hist.nfailed = 0 /\
        hist.clean \subseteq DOMAIN before.patents) =>
          DOMAIN db.patents = DOMAIN before.patents

\* p1, stored from one payload, was loaded again from another.
C29_Witness ==
    /\ LoadedClean
    /\ last[1].patent = RawP1New
    /\ "p1" \in DOMAIN before.patents
    /\ before.patents["p1"].raw_data = JsonDumps(RawP1)
    /\ db.patents["p1"].raw_data = JsonDumps(RawP1New)

-----------------------------------------------------------------------------
(* Claims about the order of the steps of a run, under SpecRun *)

\* The run asks for a page; load_patents is entered.
FetchStarts == runs' = runs /\ Len(pagesAsked') = Len(pagesAsked) + 1
LoadStarts == lpc # "loading" /\ lpc' = "loading"

\* Batches whose fetch has started and whose load has not been accounted.
InProgress == Len(pagesAsked) - all_stats.batches_processed

\* C30. The steps of a run are ordered per batch: the load of a batch starts
\* only when its fetch has returned, the fetch of the next batch only when
\* the load of the batch before has returned, and at most one batch is in
\* progress.
C30_StepsOrdered ==
    /\ [][/\ FetchStarts => (lpc # "loading" /\ InProgress = 0)
          /\ LoadStarts => (rpc = "fetched" /\ tries = 0 /\ InProgress = 1)]_vars
    /\ [](InProgress \in {0, 1})

\* The second batch of a run is being loaded.
C30_Witness ==
    /\ rpc = "loading"
    /\ lpc = "loading"
    /\ all_stats.batches_processed = 1
    /\ Len(pagesAsked) = 2

-----------------------------------------------------------------------------
(* Claims about the totals of a run, under SpecRun *)

\* The totals with the counts load_patents has just returned added.
Plus(totals, s) ==
    [total_inserted |-> totals.total_inserted + s.inserted,
     total_updated |-> totals.total_updated + s.updated,
     total_errors |-> totals.total_errors + s.errors,
     batches_processed |-> totals.batches_processed + 1]

\* load_patents has returned and the run goes on to its next statement.
BatchAccounted == rpc = "loaded" /\ rpc' \in {"loop", "done"}

\* The totals start at zero, take the counts of each batch whose load has
\* returned, once, and change at no other step.
TotalsStep ==
    /\ runs' # runs => all_stats' = ZeroTotals
    /\ BatchAccounted => all_stats' = Plus(all_stats, stats)
    /\ (runs' = runs /\ ~BatchAccounted) => all_stats' = all_stats

\* The pages of the run that came back with records.
NonEmptyPages == Len(pagesAsked) - (IF page = <<>> THEN 1 ELSE 0)

\* C31. The run totals are the sums of the per-batch load statistics: the
\* totals are zero when a run starts and grow by the inserted, updated and
\* errors counts of each batch when its load returns, and the run that ends
\* returns them with batches_processed equal to the number of non-empty
\* pages loaded.
C31_RunTotals ==
    /\ [][TotalsStep]_vars
    /\ [](rpc = "done" =>
            /\ result = <<all_stats>>
            /\ all_stats.batches_processed = NonEmptyPages)

\* A run of two batches has ended with records inserted and records in
\* error.
C31_Witness ==
    /\ rpc = "done"
    /\ all_stats.batches_processed = 2
    /\ all_stats.total_inserted > 1
    /\ all_stats.total_errors > 0

-----------------------------------------------------------------------------
(* Claims about what the request and the normalized record depend on *)

\* The attempts of one call run the body of fetch_patents with the same
\* arguments on the same client.
SameQuery ==
    \A i, j \in 1 .. Len(attempts) : attempts[i].query = attempts[j].query

\* A record inserted under a new key gets the row the same record gets in an
\* empty store at clock 0, the insertion time apart (checked under SpecLoad).
NormalizationPure ==
    (lpc = "loading" /\ nrec' = nrec + 1 /\ ~txAborted'
        /\ last'[1].fail = "none" /\ Truthy(last'[1].patent.patent_id)
        /\ last'[1].patent.patent_id[1] \notin DOMAIN tx.patents)
    => LET in  == last'[1].patent
           pid == in.patent_id[1]
           ref == UpsertPatent(EmptyDb, in, 0).patents[pid]
       IN  [tx'.patents[pid] EXCEPT !.ingested_at = Some(0)] = ref

NormalizationPureAlways == [][NormalizationPure]_vars

\* C32. The request is a function of its inputs only: the attempts of a
\* fetch call, made with equal since, page size, offset and api key, build
\* the same query whatever the clock reads.  (The normalization of a record
\* is the subject of NormalizationPureAlways.)
C32_RequestDeterministic == SameQuery

\* A call without since has made two attempts on different days.
C32_Witness ==
    /\ Len(attempts) = 2
    /\ req[1].since = None
    /\ attempts[1].query.q # attempts[2].query.q
    /\ attempts[1].query.page = attempts[2].query.page

\* When a since is passed, the attempts of the call build the same query.
C32_SinceGiven ==
    req # <<>> /\ req[1].since # None => SameQuery

-----------------------------------------------------------------------------
(* Claims about the counts load_patents returns, under SpecLoad *)

\* The patent ids of the batch loaded without a failing write that had a row
\* when the load was entered, and those that had none.
StoredBefore == hist.clean \cap DOMAIN before.patents
NewInBatch == hist.clean \ DOMAIN before.patents

\* C33. A patent_id that is already stored and is loaded again is counted in
\* 'updated' and not in 'inserted': when every record of a batch without a
\* failing write has a patent id that had a row before the load, 'inserted'
\* is 0 and 'updated' is the number of those records.
C33_UpdatedCounted ==
    (lpc = "returned" /\ hist.nfailed = 0 /\ NewInBatch = {}) =>
        /\ stats.inserted = 0
        /\ stats.updated = hist.nclean

\* A batch of one record whose patent was stored before has been loaded and
\* is reported as one insertion and no update.
C33_Witness ==
    /\ lpc = "returned"
    /\ nrec = 1
    /\ hist.nfailed = 0
    /\ StoredBefore = {"p1"}
    /\ db.patents["p1"].last_updated_at = Some(dbclock)
    /\ stats.inserted = 1
    /\ stats.updated = 0

\* Whatever is loaded, 'updated' is returned as 0.
C33_UpdatedNeverCounted == stats.updated = 0

\* No record of the batch has its writes in the store.
NothingCommitted == \A pid \in hist.clean \cup hist.failed : ~TouchedNow(pid)

\* C34. The counts load_patents returns agree with the store: when nothing
\* of the batch is committed no record is reported as inserted or updated,
\* and when no record of the batch failed every record with a patent_id is
\* reported and committed.
C34_CountsAgreeWithStore ==
    lpc = "returned" =>
        /\ NothingCommitted => stats.inserted + stats.updated = 0
        /\ hist.nfailed = 0 =>
              /\ stats.inserted + stats.updated = hist.nclean
              /\ \A pid \in hist.clean : TouchedNow(pid)

\* A batch of a clean record and a failing one has returned: one record is
\* reported as inserted and the store is as it was before the call.
C34_Witness ==
    /\ lpc = "returned"
    /\ hist.nclean = 1
    /\ hist.nfailed = 1
    /\ stats.inserted = 1
    /\ db = before

\* The part that holds: a batch without a failing record is reported and
\* committed in full.
C34_CleanBatch ==
    (lpc = "returned" /\ hist.nfailed = 0) =>
        /\ stats.inserted + stats.updated = hist.nclean
        /\ \A pid \in hist.clean : TouchedNow(pid)

\* The records the returned statistics account for.
Accounted == stats.inserted + stats.updated + Skipped(stats) + stats.errors

\* C35. Every record of a batch is accounted for exactly once: when
\* load_patents returns, inserted + updated + skipped + errors equals the
\* number of records in the batch.
C35_EveryRecordAccounted == lpc = "returned" => Accounted = nrec

\* A batch of two records, one of them without patent_id, has returned with
\* one record in its statistics.
C35_Witness ==
    /\ lpc = "returned"
    /\ nrec = 2
    /\ hist.nskipped = 1
    /\ Accounted = 1

\* The part that holds: every record with a patent_id is in exactly one of
\* the counts.
C35_RecordsWithId == lpc = "returned" => Accounted = nrec - hist.nskipped

-----------------------------------------------------------------------------
(* Claims about the pages a run asks for, under SpecRun *)

\* An attempt of fetch_patents is made.
AttemptStep == rpc = "loop" /\ (tries' # tries \/ rpc' \in {"fetched", "raised"})

\* An attempt leaves the offset alone, a first attempt asks for the page of
\* the offset, a retry asks for no other page, and the answer that comes
\* back is that page of the window.
AttemptAsksPageOfOffset ==
    AttemptStep =>
        /\ offset' = offset
        /\ pagesAsked'[Len(pagesAsked')] = offset \div batch_size + 1
        /\ tries > 0 => pagesAsked' = pagesAsked
        /\ rpc' = "fetched" =>
              page' = ApiPage(upstream, since, offset \div batch_size + 1, batch_size)

\* The pages asked so far are 1, 2, 3, ... and the offset is that of the
\* last page asked or of the page to ask next.
PagesInOrder ==
    /\ offset % batch_size = 0
    /\ \A i \in 1 .. Len(pagesAsked) : pagesAsked[i] = i
    /\ Len(pagesAsked) \in {offset \div batch_size, offset \div batch_size + 1}

\* C36. Within one run the pages requested are 1, 2, 3, ... in order: the
\* offset is always a multiple of the batch size, the page asked is
\* offset / batch_size + 1, no page is skipped or asked twice, and a retried
\* attempt asks for the same page as the attempt it repeats.
C36_PagesInOrder == [][AttemptAsksPageOfOffset]_vars /\ []PagesInOrder

\* The second page of a run is being asked again after a failed attempt.
C36_Witness ==
    /\ rpc = "loop"
    /\ tries > 0
    /\ offset = batch_size
    /\ pagesAsked = <<1, 2>>

-----------------------------------------------------------------------------
(* Claims about the rows of the embeddings table, under SpecSync *)

\* Writer w writes the rows of its patents and the store commits them; the
\* patents are those it selected, or those passed to store_embeddings.
StoreStep(w) ==
    \/ wpc[w] = "selected" /\ wpc'[w] \in {"stored", "done"}
    \/ wpc[w] \notin {"selected", "stored"} /\ wpc'[w] = "stored"
StoredBy(w) == IF wpc[w] = "selected" THEN wsel[w] ELSE wsel'[w]

\* The committed store of w leaves every patent it wrote with its row, also
\* one that had a row before, and no row that existed is lost or given
\* another model or point id; no other step writes the table.
RowsUpserted ==
    /\ \A w \in Writers :
          StoreStep(w) => \A p \in Range(StoredBy(w)) : p \in DOMAIN embeddings'
    /\ \A p \in DOMAIN embeddings :
          /\ p \in DOMAIN embeddings'
          /\ embeddings'[p].model = embeddings[p].model
          /\ embeddings'[p].qdrant_id = embeddings[p].qdrant_id
    /\ (\A w \in Writers : ~StoreStep(w)) => embeddings' = embeddings

-----------------------------------------------------------------------------
(* Claims about the rate limiter and the attempts, under SpecFetch *)

\* A request is sent; the limiter is passed.
SendStep == Len(attempts') = Len(attempts) + 1
LimiterStep == fpc = "enter" /\ fpc' = "send"

\* The request is sent at the clock reading the limiter has just stored, and
\* the attempt in hand has passed the limiter as often as the call has made
\* attempts.
SentThroughLimiter ==
    SendStep =>
        /\ last_request_time = clock
        /\ tries = Len(attempts')

\* The limiter stores the clock; no other step writes last_request_time, and
\* it never decreases.
LastRequestTimeStep ==
    /\ LimiterStep => last_request_time' = clock'
    /\ ~LimiterStep => last_request_time' = last_request_time
    /\ last_request_time' >= last_request_time

\* C38. Every HTTP attempt, a retry included, passes through the rate
\* limiter before the request is sent, and last_request_time never
\* decreases: it is set to the current clock at each attempt and changes
\* nowhere else.
C38_LimiterOnEveryAttempt == [][SentThroughLimiter /\ LastRequestTimeStep]_vars

\* The retry of a call has passed the limiter later than the clock reading
\* stored for the first attempt, and is about to be sent.
C38_Witness ==
    /\ fpc = "send"
    /\ tries = 2
    /\ Len(attempts) = 1
    /\ gaps # <<>>
    /\ gaps[1] > Interval
    /\ last_request_time = clock

=============================================================================
